---- MODULE Spec2Model ----
(***************************************************************************)
(* OpenHeavy multi-agent orchestration engine.                             *)
(*                                                                         *)
(*   Spec      AgentOrchestrator.run_agents: the orchestrator thread, one  *)
(*             thread per agent config (_run_agent_wrapper -> Agent.run    *)
(*             -> run_plan) and the timer broadcaster.                     *)
(*   SpecExec  PlanExecutor.execute_step: the tool-calling retry loop of   *)
(*             one step against the completion service.                    *)
(*   SpecPlan  TaskPlanner.create_plan: one structured completion and the  *)
(*             report-flag post-processing.                                *)
(*   SpecAgent Agent.run: planning, the run_plan loop and the events it    *)
(*             emits.                                                      *)
(*   SpecSynth AnswerSynthesizer (plain and streaming) and                 *)
(*             run_complete_workflow's synthesis of the final answer.      *)
(*   SpecReg   ToolRegistry: register_tool, enable_tool, disable_tool and  *)
(*             execute_tool on one registry.                               *)
(*   SpecExecFair  execute_step with a completion service that goes on     *)
(*             answering, under weak fairness of the call's steps.         *)
(*   SpecTimer run_agents for one agent and a sink, with a moving clock    *)
(*             and a fair timer broadcaster.                               *)
(*   SpecRetry retry_with_backoff: the loop of the retry wrapper.          *)
(*   SpecWorkflows  two run_agents calls on one AgentOrchestrator.         *)
(*   SpecContainer  Container.resolve called from two threads.             *)
(*                                                                         *)
(* The specifications share the variables; each one holds the variables    *)
(* of the others at their idle values.                                     *)
(***************************************************************************)
EXTENDS Integers, Sequences, FiniteSets, TLC

\* ------------------------------------------------------------------ bounds
MaxAgents == 2
MaxSteps == 2
MaxTicks == 1
MaxRetries == 1
MaxToolCalls == 2
MaxText == 2
MaxChunks == 2
MaxClock == 3

VARIABLES
  \* --- orchestrator (services/orchestrator.py)
  nAgents,                 \* len(agent_configs)
  sink,                    \* "socketio" | "callback" | "none"
  opc,                     \* position of the run_agents call
  loop_i,                  \* index of the spawn loop / the join loop
  agent_results,           \* self.agent_results, a dict in insertion order
  first_agent_plan_ready,  \* threading.Event created by run_agents
  timer_thread,            \* "none" | "background_task" | "thread"
  timer_stop_event,        \* threading.Event of the broadcaster
  tpc,                     \* position of the timer loop
  ticks,                   \* timer updates emitted (saturating at MaxTicks)
  completed_event,         \* the agents_completed notification
  ret,                     \* the MultiAgentResult returned
  \* --- one agent thread per config (core/agent.py)
  apc,                     \* position of the agent thread
  status,                  \* AgentState.status
  plan,                    \* report flags of the agent's plan, in order
  current_step,            \* AgentState.current_step
  run_result,              \* AgentResult returned by Agent.run
  \* --- execute_step (core/executor.py)
  epc,                     \* position of the execute_step call
  enabled,                 \* names of the registered tools that are enabled
  max_retries,             \* agent_config.max_retries
  step_title,              \* step.title
  retries,
  attempts,                \* create_completion calls made
  tool_rounds,             \* responses that carried tool calls
  calls_seen,              \* tool calls received so far (capped by MaxToolCalls)
  exc_rounds,              \* completion calls that raised
  text_rounds,             \* responses that carried direct text only
  empty_rounds,            \* responses with neither tool calls nor content
  sleeps,                  \* backoff delays taken
  messages,                \* the conversation after the two initial turns
  executed,                \* tool calls executed for the last response
  last_response,           \* the last answer of the completion service
  step_output,
  raised,                  \* the exception execute_step raised
  \* --- create_plan (core/planner.py)
  ppc,
  llm_plan,                \* what create_structured_completion produced
  plan_result,             \* what create_plan returned or raised
  \* --- one Agent.run call (core/agent.py)
  rpc,                     \* position of the Agent.run call
  state,                   \* self.state, the AgentState
  current_plan,            \* self._current_plan
  idx,                     \* index of the run_plan loop, from 0
  history,                 \* outputs of the steps executed, in order
  user_msgs,               \* the contexts passed to execute_step, in call order
  result_content,          \* what run_plan returned
  caught,                  \* the exception Agent.run caught
  agent_result,            \* the AgentResult Agent.run returned
  socketio,                \* whether Agent.run was given a SocketIO sink
  emitted,                 \* the events Agent.run emitted, in order
  \* --- synthesis (core/synthesizer.py, services/orchestrator.py)
  spc,                     \* position of the synthesis call
  entry,                   \* the function that was called
  streaming,               \* run_complete_workflow's streaming flag
  wf_socketio,             \* whether run_complete_workflow was given a sink
  chunk_callback,          \* whether the generator was given a chunk callback
  synth_input,             \* the contents handed to the synthesizer
  multi_result,            \* the MultiAgentResult of the workflow
  completion_calls,        \* create_completion calls made by the synthesizer
  completion_request,      \* the request sent with the last of them
  completion,              \* what the service answered to a plain request
  stream,                  \* the deltas the service has yet to deliver
  stream_end,              \* "ok" | "raises": how the stream ends
  consumed,                \* the deltas delivered so far
  trace,                   \* callback calls, yields and emits, in order
  synthesized_content,     \* the consumer's accumulator (orchestrator.py 214)
  synth_out,               \* what the synthesizer returned or raised
  final_answer,            \* what run_complete_workflow returned or raised
  \* --- the tool registry (tools/registry.py)
  tools,                   \* self._tools, a dict in insertion order
  last_toggle,             \* what last set the enabled state of each name
  exec_call,               \* the last execute_tool call
  exec_result,             \* what it did
  \* --- the retry wrapper (utils/retry.py)
  ypc,                     \* position of the wrapper call
  retry_max,               \* the max_retries argument
  exceptions,              \* the exception types to retry on
  jitter,                  \* the jitter argument
  attempt,                 \* the loop variable
  last_exception,
  func_calls,              \* what each call of the wrapped function did
  slept,                   \* the time.sleep calls, in order
  retry_out,               \* what the wrapper returned or raised
  \* --- workflow invocations on one orchestrator (orchestrator.py, handlers.py)
  inv_pc,                  \* position of each run_agents call
  inv_configs,             \* len(agent_configs) of each call
  inv_threads,             \* position of each call's agent threads
  self_agent_results,      \* self.agent_results of the one orchestrator
  inv_ret,                 \* the results each call returned
  \* --- the clock of the timer broadcaster (orchestrator.py 122, 366-403)
  now,                     \* time.time(), in half seconds
  timer_start_time,        \* taken by run_agents once a plan is ready
  elapsed_times,           \* the last two elapsed times reported
  \* --- the service container (container.py)
  call_stack,              \* the resolve calls each thread is in, innermost last
  resolved,                \* what each thread's resolve call returned or raised
  building,                \* self._building
  singletons,              \* self._singletons
  factory_calls            \* how often each factory was invoked

ovars == <<nAgents, sink, opc, loop_i, agent_results, first_agent_plan_ready,
           timer_thread, timer_stop_event, tpc, ticks, completed_event, ret,
           apc, status, plan, current_step, run_result>>
evars == <<epc, enabled, max_retries, step_title, retries, attempts, tool_rounds,
           calls_seen, exc_rounds, text_rounds, empty_rounds, sleeps, messages, executed,
           last_response, step_output, raised>>
pvars == <<ppc, llm_plan, plan_result>>
rvars == <<rpc, state, current_plan, idx, history, user_msgs, result_content,
           caught, agent_result, socketio, emitted>>
svars == <<spc, entry, streaming, wf_socketio, chunk_callback, synth_input,
           multi_result, completion_calls, completion_request, completion, stream,
           stream_end, consumed, trace, synthesized_content, synth_out, final_answer>>
gvars == <<tools, last_toggle, exec_call, exec_result>>
yvars == <<ypc, retry_max, exceptions, jitter, attempt, last_exception,
           func_calls, slept, retry_out>>
wvars == <<inv_pc, inv_configs, inv_threads, self_agent_results, inv_ret>>
cvars == <<now, timer_start_time, elapsed_times>>
kvars == <<call_stack, resolved, building, singletons, factory_calls>>
vars == <<ovars, evars, pvars, rvars, svars, gvars, yvars, wvars, cvars, kvars>>

Min(a, b) == IF a < b THEN a ELSE b

\* ------------------------------------------------- plans (models/plan.py)
Titles == {"t1", "t2"}

\* A Step, as far as planning and execution read it: its title, its report
\* flag and whether its system_prompt mentions "markdown".
Step == [title : Titles, report : BOOLEAN, markdown : BOOLEAN]

Plans == UNION {[1..n -> Step] : n \in 0..MaxSteps}

\* create_structured_completion: it raises, or message.parsed is None, or
\* message.parsed is a PlanResponse with any list of steps.
LLMPlanOutcomes ==
  {[kind |-> "raise", plan |-> <<>>], [kind |-> "none", plan |-> <<>>]}
    \cup {[kind |-> "parsed", plan |-> p] : p \in Plans}

\* ------------------------------------------- create_plan (core/planner.py)
\* ResetReportFlags without the reset loop.
ResetReportFlags_Skipped(p) == p

\* planner.py 76-77: every report flag is cleared.
ResetReportFlags(p) == [i \in 1..Len(p) |-> [p[i] EXCEPT !.report = FALSE]]

\* planner.py 80: the last step is the report step.
MarkLastStep(p) == [p EXCEPT ![Len(p)].report = TRUE]

\* planner.py 83-88: the markdown instruction is appended to the last step's
\* system_prompt unless it mentions markdown already; either way it does after.
EnsureMarkdownInstruction(p) ==
  IF p[Len(p)].markdown THEN p ELSE [p EXCEPT ![Len(p)].markdown = TRUE]

\* planner.py 73-88: the post-processing, skipped for an empty step list.
PostProcessPlan(p) ==
  IF p # <<>>
    THEN EnsureMarkdownInstruction(MarkLastStep(ResetReportFlags(p)))
    ELSE p

\* models/plan.py 42-49: the same normalisation as a PlanResponse method.
mark_last_as_report(p) ==
  IF p # <<>> THEN MarkLastStep(ResetReportFlags(p)) ELSE p

PlanningError == [kind |-> "PlanningError", plan |-> <<>>]

\* planner.py 47-99. A completion that raises, and a parsed value of None,
\* both end in PlanningError; a PlanResponse object is truthy whatever its
\* step list holds, so line 67 lets an empty step list through.
create_plan(o) ==
  IF o.kind = "raise" THEN PlanningError
  ELSE IF o.kind = "none" THEN PlanningError
  ELSE [kind |-> "plan", plan |-> PostProcessPlan(o.plan)]

NoPlanResult == [kind |-> "pending", plan |-> <<>>]

\* --------------------------------------- execute_step (core/executor.py)
\* Python values the loop handles: None, a string, a JSON-serialised value.
PyNone == [enc |-> "none", val |-> <<>>]
Str(s) == [enc |-> "str", val |-> <<s>>]

\* json.dumps: the serialised text is another value than what it serialises.
json_dumps(fields) == [enc |-> "json", val |-> fields]

Texts == {"x1", "x2"}
Exceptions == {"e1", "e2"}
Contents == {"c1"}

Dict(fields) == [enc |-> "dict", val |-> fields]

\* The argument payload of a tool call after executor.py 94-99: a dict (of
\* which the keys "content" and "query" are read) or, when the blob is no
\* JSON object, the parsed or raw blob itself.
Payload(type, content, query, raw) ==
  [type |-> type, content |-> content, query |-> query, raw |-> raw]

ArgPayloads ==
  {Payload("dict", Str(c), PyNone, PyNone) : c \in Contents}
    \cup {Payload("dict", PyNone, PyNone, PyNone)}
    \cup {Payload("str", PyNone, PyNone, Str("blob"))}

NoArgs == Payload("dict", PyNone, PyNone, PyNone)

\* Payloads sent to web_search: a query, no query, a blob that is no dict.
SearchPayloads ==
  {Payload("dict", PyNone, Str("q1"), PyNone), NoArgs,
   Payload("str", PyNone, PyNone, Str("blob"))}

\* tools/__init__.py 25-46: the tools the registry holds.
Registered == {"final_response", "web_search"}

\* Tool calls the completion service may ask for: the terminal tool with any
\* payload, the search tool with any payload, and a name the registry does
\* not know. effect is what the search request does once it is made.
ToolCall(name, args, effect) == [name |-> name, args |-> args, effect |-> effect]

ToolCalls ==
  {ToolCall("final_response", a, "returns") : a \in ArgPayloads}
    \cup {ToolCall("web_search", a, "returns") : a \in SearchPayloads}
    \cup {ToolCall("web_search", Payload("dict", PyNone, Str("q1"), PyNone), "raises"),
          ToolCall("unknown_tool", NoArgs, "returns")}

Batches(n) == UNION {[1..k -> ToolCalls] : k \in 1..n}

Returns(value) == [raises |-> FALSE, value |-> value, error |-> "-"]
Raises(error) == [raises |-> TRUE, value |-> PyNone, error |-> error]

\* The payload f"Error in {name}: {error}" under the key "content".
ErrorPayload(name, error) == Dict(<<"content", "Error in", name, error>>)

\* base.py 92-117 for the parameters of web_search (web_search.py 54-74):
\* "query" is required, "content" is no parameter of it.
validate_parameters(args) ==
  IF args.query = PyNone THEN Raises("Required parameter 'query' is missing")
  ELSE IF args.content # PyNone THEN Raises("Unknown parameter 'content'")
  ELSE Returns(PyNone)

\* web_search.py 76-125: the search results, or the error of a failed request
\* caught by the tool itself; both under the key "content".
web_search_execute(call) ==
  IF validate_parameters(call.args).raises THEN validate_parameters(call.args)
  ELSE IF call.effect = "raises"
    THEN Returns(ErrorPayload("web_search", "request failed"))
    ELSE Returns(Dict(<<"content", "search results">>))

\* registry.py 206-231 (ToolRegistry.execute_tool) as execute_step calls it,
\* for any tool but final_response: ToolNotFoundError for a name that is
\* disabled or not registered, the ValueError of a failed validation, else
\* what the tool returns.
registry_execute_tool(call) ==
  IF call.name \notin enabled
    THEN (IF call.name \in Registered
            THEN Raises("Tool is disabled") ELSE Raises("Tool not found"))
  ELSE IF validate_parameters(call.args).raises
    THEN validate_parameters(call.args)
  ELSE web_search_execute(call)

\* _execute_tool whose except clause swallows the error and answers None.
execute_tool_SwallowsError(call) ==
  IF call.name = "final_response"
    THEN (IF call.args.type = "dict" THEN call.args.content ELSE call.args.raw)
    ELSE IF call.args.type # "dict"
      THEN PyNone
      ELSE LET r == registry_execute_tool(call)
           IN IF r.raises THEN PyNone ELSE r.value

\* executor.py 221-244 (_execute_tool): final_response answers its content
\* argument (the payload itself when that is no dict); any other tool goes
\* through the registry (**args raises TypeError for a payload that is no
\* dict), and an exception becomes an error payload.
execute_tool(call) ==
  IF call.name = "final_response"
    THEN (IF call.args.type = "dict" THEN call.args.content ELSE call.args.raw)
    ELSE IF call.args.type # "dict"
      THEN ErrorPayload(call.name, "argument after ** must be a mapping")
      ELSE LET r == registry_execute_tool(call)
           IN IF r.raises THEN ErrorPayload(call.name, r.error) ELSE r.value

NoName == "-"
Message(role, content, name, calls) ==
  [role |-> role, content |-> content, name |-> name, tool_calls |-> calls]

\* ToolTurns with the result turn put before the tool-call turn.
ToolTurns_ResultFirst(call, result) ==
  (IF result # PyNone
     THEN <<Message("tool", json_dumps(result.val), call.name, <<>>)>>
     ELSE <<>>)
    \o <<Message("assistant", PyNone, NoName, <<call>>)>>

\* executor.py 106-117: the assistant tool-call turn and the tool-result turn.
ToolTurns(call, result) ==
  <<Message("assistant", PyNone, NoName, <<call>>)>>
    \o (IF result # PyNone
          THEN <<Message("tool", json_dumps(result.val), call.name, <<>>)>>
          ELSE <<>>)

\* executor.py 89-118: the for loop over the batch, from call i on. It stops
\* at the first final_response call, whatever that call returned.
RECURSIVE RunBatch(_, _, _)
RunBatch(batch, i, acc) ==
  IF i > Len(batch) THEN acc
  ELSE LET call == batch[i]
           result == execute_tool(call)
       IN IF call.name = "final_response"
            THEN [acc EXCEPT !.out = result,
                             !.executed = Append(acc.executed, call)]
            ELSE RunBatch(batch, i + 1,
                   [acc EXCEPT !.msgs = acc.msgs \o ToolTurns(call, result),
                               !.executed = Append(acc.executed, call)])

NoResponse == [kind |-> "none", batch |-> <<>>, text |-> PyNone, exc |-> "-"]
NoException == [type |-> "none", cause |-> "-"]

\* executor.py 127-131
UseFinalResponseTurns(text) ==
  <<Message("assistant", Str(text), NoName, <<>>),
    Message("user", Str("Error: Use final_response tool to return result."),
            NoName, <<>>)>>

\* executor.py 143-146
EmptyResponseTurn ==
  <<Message("user", Str("Error: Empty response. Use final_response tool."),
            NoName, <<>>)>>

\* NoResponsePlaceholder with a fixed step name.
NoResponsePlaceholder_FixedTitle(title) ==
  json_dumps(<<"error", "no_response", "step", "t1">>)

\* executor.py 140
NoResponsePlaceholder(title) == json_dumps(<<"error", "no_response", "step", title>>)

InLoop == epc = "loop" /\ retries <= max_retries

\* executor.py 76-121: the completion carries tool calls.
ToolCallsResponse ==
  /\ InLoop
  /\ calls_seen < MaxToolCalls
  /\ \E batch \in Batches(MaxToolCalls - calls_seen) :
       LET r == RunBatch(batch, 1,
                  [msgs |-> messages, out |-> step_output, executed |-> <<>>])
       IN /\ attempts' = attempts + 1
          /\ tool_rounds' = tool_rounds + 1
          /\ calls_seen' = calls_seen + Len(batch)
          /\ last_response' = [NoResponse EXCEPT !.kind = "tools", !.batch = batch]
          /\ messages' = r.msgs
          /\ executed' = r.executed
          /\ step_output' = r.out
          /\ epc' = IF r.out # PyNone THEN "returned" ELSE "loop"
  /\ UNCHANGED <<enabled, max_retries, step_title, retries, exc_rounds, text_rounds,
                 empty_rounds, sleeps, raised>>
  /\ UNCHANGED <<ovars, pvars, rvars, svars, gvars, yvars, wvars, cvars, kvars>>

\* DirectTextResponse that gives up without the fallback once the budget is
\* spent: no output is set and MaxRetriesExceededError follows.
DirectTextResponse_NoFallback ==
  /\ InLoop
  /\ \E t \in Texts :
       /\ last_response' = [NoResponse EXCEPT !.kind = "text", !.text = Str(t)]
       /\ IF retries + 1 <= max_retries
            THEN /\ messages' = messages \o UseFinalResponseTurns(t)
                 /\ UNCHANGED <<raised, epc>>
            ELSE /\ raised' = [type |-> "MaxRetriesExceededError", cause |-> "-"]
                 /\ epc' = "raised"
                 /\ UNCHANGED messages
  /\ attempts' = attempts + 1
  /\ text_rounds' = text_rounds + 1
  /\ retries' = retries + 1
  /\ executed' = <<>>
  /\ UNCHANGED <<enabled, max_retries, step_title, tool_rounds, calls_seen, exc_rounds,
                 empty_rounds, sleeps, step_output>>
  /\ UNCHANGED <<ovars, pvars, rvars, svars, gvars, yvars, wvars, cvars, kvars>>

\* executor.py 76-86, 123-135: direct text and no tool call.
DirectTextResponse ==
  /\ InLoop
  /\ \E t \in Texts :
       /\ last_response' = [NoResponse EXCEPT !.kind = "text", !.text = Str(t)]
       /\ IF retries + 1 <= max_retries
            THEN /\ messages' = messages \o UseFinalResponseTurns(t)
                 /\ UNCHANGED <<step_output, epc>>
            ELSE /\ step_output' = Str(t)
                 /\ epc' = "returned"
                 /\ UNCHANGED messages
  /\ attempts' = attempts + 1
  /\ text_rounds' = text_rounds + 1
  /\ retries' = retries + 1
  /\ executed' = <<>>
  /\ UNCHANGED <<enabled, max_retries, step_title, tool_rounds, calls_seen, exc_rounds,
                 empty_rounds, sleeps, raised>>
  /\ UNCHANGED <<ovars, pvars, rvars, svars, gvars, yvars, wvars, cvars, kvars>>

\* EmptyResponse that counts the empty responses on a counter of their own.
EmptyResponse_OwnCounter ==
  /\ InLoop
  /\ last_response' = [NoResponse EXCEPT !.kind = "empty"]
  /\ IF empty_rounds + 1 > max_retries
       THEN /\ step_output' = NoResponsePlaceholder(step_title)
            /\ epc' = "returned"
            /\ UNCHANGED messages
       ELSE /\ messages' = messages \o EmptyResponseTurn
            /\ UNCHANGED <<step_output, epc>>
  /\ attempts' = attempts + 1
  /\ empty_rounds' = empty_rounds + 1
  /\ executed' = <<>>
  /\ UNCHANGED <<enabled, max_retries, step_title, retries, tool_rounds, calls_seen,
                 exc_rounds, text_rounds, sleeps, raised>>
  /\ UNCHANGED <<ovars, pvars, rvars, svars, gvars, yvars, wvars, cvars, kvars>>

\* executor.py 76-86, 137-146: neither tool calls nor content.
EmptyResponse ==
  /\ InLoop
  /\ last_response' = [NoResponse EXCEPT !.kind = "empty"]
  /\ IF retries + 1 > max_retries
       THEN /\ step_output' = NoResponsePlaceholder(step_title)
            /\ epc' = "returned"
            /\ UNCHANGED messages
       ELSE /\ messages' = messages \o EmptyResponseTurn
            /\ UNCHANGED <<step_output, epc>>
  /\ attempts' = attempts + 1
  /\ empty_rounds' = empty_rounds + 1
  /\ retries' = retries + 1
  /\ executed' = <<>>
  /\ UNCHANGED <<enabled, max_retries, step_title, tool_rounds, calls_seen, exc_rounds,
                 text_rounds, sleeps, raised>>
  /\ UNCHANGED <<ovars, pvars, rvars, svars, gvars, yvars, wvars, cvars, kvars>>

\* ExceptionResponse that leaves the spent budget to the loop condition.
ExceptionResponse_FallsThrough ==
  /\ InLoop
  /\ \E e \in Exceptions :
       last_response' = [NoResponse EXCEPT !.kind = "exception", !.exc = e]
  /\ sleeps' = sleeps + 1
  /\ attempts' = attempts + 1
  /\ exc_rounds' = exc_rounds + 1
  /\ retries' = retries + 1
  /\ executed' = <<>>
  /\ UNCHANGED <<enabled, max_retries, step_title, tool_rounds, calls_seen,
                 text_rounds, empty_rounds, messages, step_output, raised, epc>>
  /\ UNCHANGED <<ovars, pvars, rvars, svars, gvars, yvars, wvars, cvars, kvars>>

\* ExceptionResponse that sleeps before it looks at the budget.
ExceptionResponse_SleepsFirst ==
  /\ InLoop
  /\ \E e \in Exceptions :
       /\ last_response' = [NoResponse EXCEPT !.kind = "exception", !.exc = e]
       /\ IF retries + 1 > max_retries
            THEN /\ raised' = [type |-> "ExecutionError", cause |-> e]
                 /\ epc' = "raised"
            ELSE UNCHANGED <<raised, epc>>
  /\ sleeps' = sleeps + 1
  /\ attempts' = attempts + 1
  /\ exc_rounds' = exc_rounds + 1
  /\ retries' = retries + 1
  /\ executed' = <<>>
  /\ UNCHANGED <<enabled, max_retries, step_title, tool_rounds, calls_seen, text_rounds,
                 empty_rounds, messages, step_output>>
  /\ UNCHANGED <<ovars, pvars, rvars, svars, gvars, yvars, wvars, cvars, kvars>>

\* ExceptionResponse that forgets to count the failed attempt.
ExceptionResponse_NotCounted ==
  /\ InLoop
  /\ \E e \in Exceptions :
       last_response' = [NoResponse EXCEPT !.kind = "exception", !.exc = e]
  /\ sleeps' = sleeps + 1
  /\ attempts' = attempts + 1
  /\ exc_rounds' = exc_rounds + 1
  /\ executed' = <<>>
  /\ UNCHANGED <<enabled, max_retries, step_title, retries, tool_rounds, calls_seen,
                 text_rounds, empty_rounds, messages, step_output, raised, epc>>
  /\ UNCHANGED <<ovars, pvars, rvars, svars, gvars, yvars, wvars, cvars, kvars>>

\* executor.py 76-82, 148-158: create_completion raises.
ExceptionResponse ==
  /\ InLoop
  /\ \E e \in Exceptions :
       /\ last_response' = [NoResponse EXCEPT !.kind = "exception", !.exc = e]
       /\ IF retries + 1 > max_retries
            THEN /\ raised' = [type |-> "ExecutionError", cause |-> e]
                 /\ epc' = "raised"
                 /\ UNCHANGED sleeps
            ELSE /\ sleeps' = sleeps + 1
                 /\ UNCHANGED <<raised, epc>>
  /\ attempts' = attempts + 1
  /\ exc_rounds' = exc_rounds + 1
  /\ retries' = retries + 1
  /\ executed' = <<>>
  /\ UNCHANGED <<enabled, max_retries, step_title, tool_rounds, calls_seen, text_rounds,
                 empty_rounds, messages, step_output>>
  /\ UNCHANGED <<ovars, pvars, rvars, svars, gvars, yvars, wvars, cvars, kvars>>

\* executor.py 74, 160-168: the while condition fails.
LoopExit ==
  /\ epc = "loop"
  /\ retries > max_retries
  /\ IF step_output = PyNone
       THEN /\ raised' = [type |-> "MaxRetriesExceededError", cause |-> "-"]
            /\ epc' = "raised"
       ELSE /\ epc' = "returned"
            /\ UNCHANGED raised
  /\ UNCHANGED <<enabled, max_retries, step_title, retries, attempts, tool_rounds,
                 calls_seen, exc_rounds, text_rounds, empty_rounds, sleeps,
                 messages, executed, last_response, step_output>>
  /\ UNCHANGED <<ovars, pvars, rvars, svars, gvars, yvars, wvars, cvars, kvars>>

\* executor.py 76-121 once the model's bound on counted tool calls is reached:
\* a response whose batch leaves the conversation and the step output as
\* they are, which is a batch that starts with a final_response call without
\* content (the for loop breaks at it, line 103, and line 119 finds no
\* output). The loop continues with the request it sent before; the counters
\* of the model stay at their bounds.
ToolCallsResponseRepeated ==
  /\ InLoop
  /\ calls_seen = MaxToolCalls
  /\ \E batch \in Batches(MaxToolCalls) :
       LET r == RunBatch(batch, 1,
                  [msgs |-> messages, out |-> step_output, executed |-> <<>>])
       IN /\ r.out = PyNone
          /\ r.msgs = messages
          /\ last_response' = [NoResponse EXCEPT !.kind = "tools", !.batch = batch]
          /\ executed' = r.executed
  /\ UNCHANGED <<enabled, max_retries, step_title, retries, attempts, tool_rounds,
                 calls_seen, exc_rounds, text_rounds, empty_rounds, sleeps,
                 messages, step_output, raised, epc>>
  /\ UNCHANGED <<ovars, pvars, rvars, svars, gvars, yvars, wvars, cvars, kvars>>

\* executor.py 53-71: the state execute_step starts its loop in.
ExecStart ==
  /\ epc = "loop"
  /\ retries = 0 /\ attempts = 0 /\ tool_rounds = 0 /\ calls_seen = 0
  /\ exc_rounds = 0 /\ text_rounds = 0 /\ empty_rounds = 0 /\ sleeps = 0
  /\ messages = <<>> /\ executed = <<>> /\ last_response = NoResponse
  /\ step_output = PyNone /\ raised = NoException

ExecIdle ==
  /\ ExecStart
  /\ enabled = Registered
  /\ max_retries = 0
  /\ step_title = "t1"

\* max_retries is any int of the configuration (models/agent.py 29 and
\* config/settings.py 37 put no lower bound on it); web_search may have been
\* disabled in the registry, final_response cannot be.
ExecInit ==
  /\ ExecStart
  /\ enabled \in {Registered, Registered \ {"web_search"}}
  /\ max_retries \in -1..MaxRetries
  /\ step_title \in Titles

\* ---------------------------------------------------- create_plan, as a call
PlanIdle ==
  /\ ppc = "idle"
  /\ llm_plan = [kind |-> "none", plan |-> <<>>]
  /\ plan_result = NoPlanResult

PlanInit ==
  /\ ppc = "call"
  /\ llm_plan \in LLMPlanOutcomes
  /\ plan_result = NoPlanResult

\* planner.py 33-99
CreatePlanCall ==
  /\ ppc = "call"
  /\ plan_result' = create_plan(llm_plan)
  /\ ppc' = "done"
  /\ UNCHANGED llm_plan
  /\ UNCHANGED <<ovars, evars, rvars, svars, gvars, yvars, wvars, cvars, kvars>>

\* ------------------------------- run_agents (services/orchestrator.py)
AgentIdx == 1..MaxAgents

\* orchestrator.py 103: agent_id = f'agent_{i+1}' for the config at index i.
agent_id(i) == <<"agent", i>>

\* The output execute_step returns for step k of agent a.
StepOutput(a, k) == <<"output", a, k>>

AgentResult(id, content, steps, success, err) ==
  [agent_id |-> id, content |-> content, steps_completed |-> steps,
   success |-> success, error_message |-> err]

NoAgentResult == AgentResult(<<>>, <<>>, 0, FALSE, "-")

\* DictSet as a write that loses the entries of the other keys.
DictSet_LosesOthers(d, k, v) == <<[key |-> k, value |-> v]>>

\* A Python dict, in insertion order: d[k] = v.
DictSet(d, k, v) ==
  IF \E i \in 1..Len(d) : d[i].key = k
    THEN [i \in 1..Len(d) |-> IF d[i].key = k THEN [key |-> k, value |-> v] ELSE d[i]]
    ELSE Append(d, [key |-> k, value |-> v])

\* list(d.values())
DictValues(d) == [i \in 1..Len(d) |-> d[i].value]

\* orchestrator.py 165, 174: the successful results are counted.
CountSuccessful(results) ==
  Cardinality({i \in 1..Len(results) : results[i].success})

NoReturn == [results |-> <<>>, successful_agents |-> 0]
NoCompletedEvent == [emitted |-> FALSE, total_agents |-> 0]

\* AgentsCompletedEvent with the agent count fixed at four.
AgentsCompletedEvent_Hardcoded(total_agents) ==
  [emitted |-> TRUE, total_agents |-> 4]

\* orchestrator.py 157-161 and emitters.py 103-108: the payload of the
\* agents_completed notification, as far as the agent count goes.
AgentsCompletedEvent(total_agents) ==
  [emitted |-> TRUE, total_agents |-> total_agents]

\* What an earlier call on the same orchestrator left in self.agent_results:
\* nothing after construction (orchestrator.py 64), else one failed result
\* per agent of that call.
LeftOverResults(n) ==
  [i \in 1..n |-> [key |-> agent_id(i),
                   value |-> AgentResult(agent_id(i), <<>>, 0, FALSE, "earlier call")]]

\* RunAgentsStart without line 95: the results of the earlier call stay.
RunAgentsStart_KeepsResults ==
  /\ opc = "call"
  /\ first_agent_plan_ready' = FALSE
  /\ loop_i' = 1
  /\ opc' = "spawn"
  /\ UNCHANGED <<nAgents, sink, agent_results, timer_thread, timer_stop_event,
                 tpc, ticks, completed_event, ret, apc, status, plan,
                 current_step, run_result>>
  /\ UNCHANGED <<evars, pvars, rvars, svars, gvars, yvars, wvars, cvars, kvars>>

\* orchestrator.py 86-99: the previous results are dropped, the event made.
RunAgentsStart ==
  /\ opc = "call"
  /\ agent_results' = <<>>
  /\ first_agent_plan_ready' = FALSE
  /\ loop_i' = 1
  /\ opc' = "spawn"
  /\ UNCHANGED <<nAgents, sink, timer_thread, timer_stop_event, tpc, ticks,
                 completed_event, ret, apc, status, plan, current_step, run_result>>
  /\ UNCHANGED <<evars, pvars, rvars, svars, gvars, yvars, wvars, cvars, kvars>>

\* orchestrator.py 102-116: one thread per config is started, in order.
StartAgentThread ==
  /\ opc = "spawn"
  /\ loop_i <= nAgents
  /\ apc' = [apc EXCEPT ![loop_i] = "start"]
  /\ loop_i' = IF loop_i = nAgents THEN 1 ELSE loop_i + 1
  /\ opc' = IF loop_i = nAgents THEN "wait" ELSE "spawn"
  /\ UNCHANGED <<nAgents, sink, agent_results, first_agent_plan_ready,
                 timer_thread, timer_stop_event, tpc, ticks, completed_event, ret,
                 status, plan, current_step, run_result>>
  /\ UNCHANGED <<evars, pvars, rvars, svars, gvars, yvars, wvars, cvars, kvars>>

\* WaitFirstPlanReady without line 119: the broadcaster is started at once.
WaitFirstPlanReady_NoWait ==
  /\ opc = "wait"
  /\ timer_stop_event' = FALSE
  /\ timer_thread' = IF sink = "socketio" THEN "background_task"
                     ELSE IF sink = "callback" THEN "thread" ELSE "none"
  /\ tpc' = IF sink = "none" THEN tpc ELSE "check"
  /\ opc' = "join"
  /\ UNCHANGED <<nAgents, sink, loop_i, agent_results, first_agent_plan_ready,
                 ticks, completed_event, ret, apc, status, plan, current_step,
                 run_result>>
  /\ timer_start_time' = now
  /\ UNCHANGED <<now, elapsed_times>>
  /\ UNCHANGED <<evars, pvars, rvars, svars, gvars, yvars, wvars, kvars>>

\* orchestrator.py 119-140: first_agent_plan_ready.wait() returns once the
\* event is set; the broadcaster is started according to the sink.
WaitFirstPlanReady ==
  /\ opc = "wait"
  /\ first_agent_plan_ready
  /\ timer_stop_event' = FALSE
  /\ timer_thread' = IF sink = "socketio" THEN "background_task"
                     ELSE IF sink = "callback" THEN "thread" ELSE "none"
  /\ tpc' = IF sink = "none" THEN tpc ELSE "check"
  /\ opc' = "join"
  /\ UNCHANGED <<nAgents, sink, loop_i, agent_results, first_agent_plan_ready,
                 ticks, completed_event, ret, apc, status, plan, current_step,
                 run_result>>
  /\ timer_start_time' = now
  /\ UNCHANGED <<now, elapsed_times>>
  /\ UNCHANGED <<evars, pvars, rvars, svars, gvars, yvars, wvars, kvars>>

\* orchestrator.py 143-144: thread.join() for each agent thread, in order.
JoinAgentThread ==
  /\ opc = "join"
  /\ apc[loop_i] = "done"
  /\ loop_i' = IF loop_i = nAgents THEN 1 ELSE loop_i + 1
  /\ opc' = IF loop_i = nAgents THEN "stop" ELSE "join"
  /\ UNCHANGED <<nAgents, sink, agent_results, first_agent_plan_ready,
                 timer_thread, timer_stop_event, tpc, ticks, completed_event, ret,
                 apc, status, plan, current_step, run_result>>
  /\ UNCHANGED <<evars, pvars, rvars, svars, gvars, yvars, wvars, cvars, kvars>>

\* orchestrator.py 147-151: the stop flag is set; only a real thread is joined.
StopTimer ==
  /\ opc = "stop"
  /\ timer_stop_event' = IF timer_thread # "none" THEN TRUE ELSE timer_stop_event
  /\ opc' = IF timer_thread # "none" /\ sink # "socketio" THEN "join_timer"
            ELSE "finish"
  /\ UNCHANGED <<nAgents, sink, loop_i, agent_results, first_agent_plan_ready,
                 timer_thread, tpc, ticks, completed_event, ret, apc, status,
                 plan, current_step, run_result>>
  /\ UNCHANGED <<evars, pvars, rvars, svars, gvars, yvars, wvars, cvars, kvars>>

\* JoinTimer that does not wait for the timer thread.
JoinTimer_NoWait ==
  /\ opc = "join_timer"
  /\ opc' = "finish"
  /\ UNCHANGED <<nAgents, sink, loop_i, agent_results, first_agent_plan_ready,
                 timer_thread, timer_stop_event, tpc, ticks, completed_event, ret,
                 apc, status, plan, current_step, run_result>>
  /\ UNCHANGED <<evars, pvars, rvars, svars, gvars, yvars, wvars, cvars, kvars>>

\* orchestrator.py 151: timer_thread.join()
JoinTimer ==
  /\ opc = "join_timer"
  /\ tpc = "done"
  /\ opc' = "finish"
  /\ UNCHANGED <<nAgents, sink, loop_i, agent_results, first_agent_plan_ready,
                 timer_thread, timer_stop_event, tpc, ticks, completed_event, ret,
                 apc, status, plan, current_step, run_result>>
  /\ UNCHANGED <<evars, pvars, rvars, svars, gvars, yvars, wvars, cvars, kvars>>

\* orchestrator.py 153-175: agents_completed is emitted to a SocketIO sink,
\* the results are collected and the MultiAgentResult is returned.
ReturnResults ==
  /\ opc = "finish"
  /\ completed_event' = IF sink = "socketio"
                          THEN AgentsCompletedEvent(nAgents)
                          ELSE completed_event
  /\ ret' = [results |-> DictValues(agent_results),
             successful_agents |-> CountSuccessful(DictValues(agent_results))]
  /\ opc' = "returned"
  /\ UNCHANGED <<nAgents, sink, loop_i, agent_results, first_agent_plan_ready,
                 timer_thread, timer_stop_event, tpc, ticks, apc, status, plan,
                 current_step, run_result>>
  /\ UNCHANGED <<evars, pvars, rvars, svars, gvars, yvars, wvars, cvars, kvars>>

\* int(x) for a time span x >= 0 given in half seconds: the whole seconds.
PyInt(halves) == halves \div 2

\* The window of the last two reported values, after v was reported.
LastTwo(window, v) ==
  IF Len(window) < 2 THEN Append(window, v) ELSE <<window[2], v>>

ClockIdle ==
  /\ now = 0
  /\ timer_start_time = 0
  /\ elapsed_times = <<>>

\* time.time() moves on between two steps of the threads.
ClockAdvance ==
  /\ now < MaxClock
  /\ now' = now + 1
  /\ UNCHANGED <<timer_start_time, elapsed_times>>
  /\ UNCHANGED <<ovars, evars, pvars, rvars, svars, gvars, yvars, wvars, kvars>>

\* orchestrator.py 381 / 400: while not stop_event.is_set()
TimerCheck ==
  /\ tpc = "check"
  /\ tpc' = IF timer_stop_event THEN "done" ELSE "emit"
  /\ UNCHANGED <<nAgents, sink, opc, loop_i, agent_results,
                 first_agent_plan_ready, timer_thread, timer_stop_event, ticks,
                 completed_event, ret, apc, status, plan, current_step, run_result>>
  /\ UNCHANGED <<evars, pvars, rvars, svars, gvars, yvars, wvars, cvars, kvars>>

\* orchestrator.py 382-384 / 401-403: one timer update with the whole seconds
\* since the start time, then the 1 s sleep.
TimerTick ==
  /\ tpc = "emit"
  /\ ticks' = Min(ticks + 1, MaxTicks)
  /\ tpc' = "check"
  /\ UNCHANGED <<nAgents, sink, opc, loop_i, agent_results,
                 first_agent_plan_ready, timer_thread, timer_stop_event,
                 completed_event, ret, apc, status, plan, current_step, run_result>>
  /\ elapsed_times' = LastTwo(elapsed_times, PyInt(now - timer_start_time))
  /\ UNCHANGED <<now, timer_start_time>>
  /\ UNCHANGED <<evars, pvars, rvars, svars, gvars, yvars, wvars, kvars>>

\* ------------------------- the agent threads (orchestrator.py, agent.py)
ReportFlags(p) == [i \in 1..Len(p) |-> p[i].report]

\* orchestrator.py 305-329 and agent.py 77-85: the agent is built and
\* Agent.run starts planning.
AgentRunBegin(a) ==
  /\ apc[a] = "start"
  /\ apc' = [apc EXCEPT ![a] = "planning"]
  /\ status' = [status EXCEPT ![a] = "planning"]
  /\ UNCHANGED <<nAgents, sink, opc, loop_i, agent_results,
                 first_agent_plan_ready, timer_thread, timer_stop_event, tpc,
                 ticks, completed_event, ret, plan, current_step, run_result>>
  /\ UNCHANGED <<evars, pvars, rvars, svars, gvars, yvars, wvars, cvars, kvars>>

\* orchestrator.py 305-323, 344-364: building the agent raises; the wrapper
\* stores a failed result under the agent's id.
WrapperCatchesFailure(a) ==
  /\ apc[a] = "start"
  /\ agent_results' = DictSet(agent_results, agent_id(a),
                         AgentResult(agent_id(a), <<>>, 0, FALSE, "wrapper"))
  /\ apc' = [apc EXCEPT ![a] = "done"]
  /\ UNCHANGED <<nAgents, sink, opc, loop_i, first_agent_plan_ready,
                 timer_thread, timer_stop_event, tpc, ticks, completed_event, ret,
                 status, plan, current_step, run_result>>
  /\ UNCHANGED <<evars, pvars, rvars, svars, gvars, yvars, wvars, cvars, kvars>>

\* The planning outcomes drawn for an agent thread: run_agents reads the
\* length and the report flags of a plan only, so the titles and the markdown
\* mentions are left at one value here.
AgentSteps == {st \in Step : st.title = "t1" /\ st.markdown}

AgentPlanOutcomes ==
  {[kind |-> "raise", plan |-> <<>>], [kind |-> "none", plan |-> <<>>]}
    \cup {[kind |-> "parsed", plan |-> p] :
            p \in UNION {[1..n -> AgentSteps] : n \in 0..MaxSteps}}

\* agent.py 86-87, 125-144, 146-164: create_plan returns the plan, or its
\* error is caught by Agent.run and becomes a failed AgentResult.
PlanningStep(a) ==
  /\ apc[a] = "planning"
  /\ \E o \in AgentPlanOutcomes :
       LET r == create_plan(o)
       IN IF r.kind = "plan"
            THEN /\ plan' = [plan EXCEPT ![a] = ReportFlags(r.plan)]
                 /\ apc' = [apc EXCEPT ![a] = "signal"]
                 /\ UNCHANGED <<status, run_result>>
            ELSE /\ status' = [status EXCEPT ![a] = "error"]
                 /\ run_result' = [run_result EXCEPT ![a] =
                        AgentResult(agent_id(a), <<>>, current_step[a], FALSE,
                                    "planning")]
                 /\ apc' = [apc EXCEPT ![a] = "store"]
                 /\ UNCHANGED plan
  /\ UNCHANGED <<nAgents, sink, opc, loop_i, agent_results,
                 first_agent_plan_ready, timer_thread, timer_stop_event, tpc,
                 ticks, completed_event, ret, current_step>>
  /\ UNCHANGED <<evars, pvars, rvars, svars, gvars, yvars, wvars, cvars, kvars>>

\* SignalCheck as a barrier: the agent goes on once every agent has its plan.
SignalCheck_Barrier(a) ==
  /\ apc[a] = "signal"
  /\ \A b \in 1..nAgents : apc[b] \notin {"idle", "start", "planning"}
  /\ IF first_agent_plan_ready
       THEN /\ apc' = [apc EXCEPT ![a] = "execute"]
            /\ status' = [status EXCEPT ![a] = "executing"]
       ELSE /\ apc' = [apc EXCEPT ![a] = "set"]
            /\ UNCHANGED status
  /\ UNCHANGED <<nAgents, sink, opc, loop_i, agent_results,
                 first_agent_plan_ready, timer_thread, timer_stop_event, tpc,
                 ticks, completed_event, ret, plan, current_step, run_result>>
  /\ UNCHANGED <<evars, pvars, rvars, svars, gvars, yvars, wvars, cvars, kvars>>

\* agent.py 90: the event is read; when it is set already, 94-98 follow.
SignalCheck(a) ==
  /\ apc[a] = "signal"
  /\ IF first_agent_plan_ready
       THEN /\ apc' = [apc EXCEPT ![a] = "execute"]
            /\ status' = [status EXCEPT ![a] = "executing"]
       ELSE /\ apc' = [apc EXCEPT ![a] = "set"]
            /\ UNCHANGED status
  /\ UNCHANGED <<nAgents, sink, opc, loop_i, agent_results,
                 first_agent_plan_ready, timer_thread, timer_stop_event, tpc,
                 ticks, completed_event, ret, plan, current_step, run_result>>
  /\ UNCHANGED <<evars, pvars, rvars, svars, gvars, yvars, wvars, cvars, kvars>>

\* SignalSet that clears the event when another agent has set it meanwhile.
SignalSet_Toggles(a) ==
  /\ apc[a] = "set"
  /\ first_agent_plan_ready' = ~first_agent_plan_ready
  /\ apc' = [apc EXCEPT ![a] = "execute"]
  /\ status' = [status EXCEPT ![a] = "executing"]
  /\ UNCHANGED <<nAgents, sink, opc, loop_i, agent_results, timer_thread,
                 timer_stop_event, tpc, ticks, completed_event, ret, plan,
                 current_step, run_result>>
  /\ UNCHANGED <<evars, pvars, rvars, svars, gvars, yvars, wvars, cvars, kvars>>

\* agent.py 91-98: the event is set and the agent starts executing.
SignalSet(a) ==
  /\ apc[a] = "set"
  /\ first_agent_plan_ready' = TRUE
  /\ apc' = [apc EXCEPT ![a] = "execute"]
  /\ status' = [status EXCEPT ![a] = "executing"]
  /\ UNCHANGED <<nAgents, sink, opc, loop_i, agent_results, timer_thread,
                 timer_stop_event, tpc, ticks, completed_event, ret, plan,
                 current_step, run_result>>
  /\ UNCHANGED <<evars, pvars, rvars, svars, gvars, yvars, wvars, cvars, kvars>>

\* agent.py 188-214 and 106-144: one iteration of run_plan. execute_step
\* returns the step's output or raises; the report step ends the run.
ExecuteStep(a) ==
  /\ apc[a] = "execute"
  /\ current_step[a] < Len(plan[a])
  /\ \E outcome \in {"returns", "raises"} :
       LET k == current_step[a] + 1
       IN IF outcome = "returns"
            THEN /\ current_step' = [current_step EXCEPT ![a] = k]
                 /\ IF plan[a][k]
                      THEN /\ status' = [status EXCEPT ![a] = "completed"]
                           /\ run_result' = [run_result EXCEPT ![a] =
                                  AgentResult(agent_id(a), StepOutput(a, k), k,
                                              TRUE, "-")]
                           /\ apc' = [apc EXCEPT ![a] = "store"]
                      ELSE UNCHANGED <<status, run_result, apc>>
            ELSE /\ status' = [status EXCEPT ![a] = "error"]
                 /\ run_result' = [run_result EXCEPT ![a] =
                        AgentResult(agent_id(a), <<>>, current_step[a], FALSE,
                                    "execution")]
                 /\ apc' = [apc EXCEPT ![a] = "store"]
                 /\ UNCHANGED current_step
  /\ UNCHANGED <<nAgents, sink, opc, loop_i, agent_results,
                 first_agent_plan_ready, timer_thread, timer_stop_event, tpc,
                 ticks, completed_event, ret, plan>>
  /\ UNCHANGED <<evars, pvars, rvars, svars, gvars, yvars, wvars, cvars, kvars>>

\* agent.py 188, 217 and 106-123: the loop ends without a report step; the
\* last output, or "" when nothing ran, is the content of a successful result.
RunPlanFallThrough(a) ==
  /\ apc[a] = "execute"
  /\ current_step[a] >= Len(plan[a])
  /\ status' = [status EXCEPT ![a] = "completed"]
  /\ run_result' = [run_result EXCEPT ![a] =
         AgentResult(agent_id(a),
                     IF current_step[a] > 0
                       THEN StepOutput(a, current_step[a]) ELSE <<>>,
                     current_step[a], TRUE, "-")]
  /\ apc' = [apc EXCEPT ![a] = "store"]
  /\ UNCHANGED <<nAgents, sink, opc, loop_i, agent_results,
                 first_agent_plan_ready, timer_thread, timer_stop_event, tpc,
                 ticks, completed_event, ret, plan, current_step>>
  /\ UNCHANGED <<evars, pvars, rvars, svars, gvars, yvars, wvars, cvars, kvars>>

\* orchestrator.py 331-342: the wrapper stores what Agent.run returned and
\* the thread ends; the Agent object and the wrapper's locals die with it.
StoreResult(a) ==
  /\ apc[a] = "store"
  /\ agent_results' = DictSet(agent_results, agent_id(a), run_result[a])
  /\ apc' = [apc EXCEPT ![a] = "done"]
  /\ plan' = [plan EXCEPT ![a] = <<>>]
  /\ current_step' = [current_step EXCEPT ![a] = 0]
  /\ run_result' = [run_result EXCEPT ![a] = NoAgentResult]
  /\ UNCHANGED <<nAgents, sink, opc, loop_i, first_agent_plan_ready,
                 timer_thread, timer_stop_event, tpc, ticks, completed_event, ret,
                 status>>
  /\ UNCHANGED <<evars, pvars, rvars, svars, gvars, yvars, wvars, cvars, kvars>>

\* ------------------------------------ one Agent.run call (core/agent.py)
\* An exception: its class, its message and the details __str__ appends.
Exc(type, message, details) ==
  [type |-> type, message |-> message, details |-> details]

NoCaught == Exc("none", "", "")

\* exceptions/base.py 56-60: str(e) of an exception of this repository.
ExceptionStr(e) ==
  IF e.details # ""
    THEN e.message \o " (Details: " \o e.details \o ")"
    ELSE e.message

\* The id and the request Agent.run is called with.
RunAgentId == "agent_1"
UserTasks == {"task"}

\* planner.create_plan as Agent.create_plan sees it: a PlanningError, or a
\* PlanResponse. The planner is TaskPlanner or an injected IPlanner (agent.py
\* 30, 45-46), so the report flags of the plan may be any.
RunSteps == {st \in Step : st.markdown}

PlannerOutcomes ==
  {[kind |-> "raise", plan |-> <<>>,
    error |-> Exc("PlanningError", "Planner didn't return a valid response",
                  "user_request")]}
    \cup {[kind |-> "plan", plan |-> p, error |-> NoCaught] :
            p \in UNION {[1..n -> RunSteps] : n \in 0..MaxSteps}}

\* agent.py 157-164: the planner's error wrapped in an AgentError.
AgentError(e) ==
  Exc("AgentError", "Failed to create plan: " \o ExceptionStr(e), "agent_id")

\* What execute_step returns: the content of the final_response call, a str
\* or (for a payload that is a JSON list) a value that is no str.
StepOutputs ==
  {Str("o1"), Str("o2"), [enc |-> "list", val |-> <<"o1">>]}

\* What execute_step raises (executor.py 151-155, 161-165).
StepErrors ==
  {Exc("ExecutionError", "Step execution failed after 1 retries: e1", "step_title"),
   Exc("MaxRetriesExceededError", "Step 't1' failed after 0 retries", "max_retries")}

\* pydantic's error for AgentResult(content=<no str>) (models/agent.py 70).
ValidationError ==
  Exc("ValidationError", "1 validation error for AgentResult", "")

\* str(v), as an f-string formats a step output.
PyStr(v) == IF v.enc = "str" THEN v.val[1] ELSE "['" \o v.val[1] \o "']"

\* models/agent.py 34-44: a new AgentState (interfaces.py 220). progress is
\* kept in hundredths of a percent.
NewAgentState ==
  [agent_id |-> "", status |-> "idle", current_step |-> 0, total_steps |-> 0,
   progress |-> 0, error_message |-> "-"]

\* models/agent.py 46-51. round(x, 2) is the nearest hundredth; no total of
\* at most MaxSteps + 1 steps yields a tie.
update_progress(st) ==
  [st EXCEPT !.progress =
     IF st.total_steps > 0
       THEN (2 * st.current_step * 10000 + st.total_steps) \div (2 * st.total_steps)
       ELSE 0]

\* models/agent.py 53-56
advance_step(st) ==
  update_progress([st EXCEPT !.current_step = st.current_step + 1])

\* models/agent.py 58-61
set_error(st, error_message) ==
  [st EXCEPT !.status = "error", !.error_message = error_message]

\* "\n".join(parts)
RECURSIVE JoinLines(_)
JoinLines(parts) ==
  IF parts = <<>> THEN ""
  ELSE IF Len(parts) = 1 THEN parts[1]
  ELSE parts[1] \o "\n" \o JoinLines(Tail(parts))

\* build_step_context that leaves the step titles out of the transcript.
build_step_context_NoTitles(p, i0, hist, user_task) ==
  LET n == Min(Min(i0, Len(p)), Len(hist))
      prev_context ==
        JoinLines([i \in 1..n |->
                     "Step " \o ToString(i) \o " result:\n" \o PyStr(hist[i])])
      user_msg == "User task: " \o user_task
  IN IF prev_context # ""
       THEN user_msg \o "\n\nPrevious context:\n" \o prev_context
       ELSE user_msg

\* agent.py 219-248 (_build_step_context): zip(plan.plan[:idx], history) ends
\* with the shorter of the two.
build_step_context(p, i0, hist, user_task) ==
  LET n == Min(Min(i0, Len(p)), Len(hist))
      prev_context ==
        JoinLines([i \in 1..n |->
                     "Step " \o ToString(i) \o " (" \o p[i].title
                       \o ") result:\n" \o PyStr(hist[i])])
      user_msg == "User task: " \o user_task
  IN IF prev_context # ""
       THEN user_msg \o "\n\nPrevious context:\n" \o prev_context
       ELSE user_msg

\* IsReportStep that takes no step for the report step.
IsReportStep_Never(step) == FALSE

\* agent.py 213: if step.report
IsReportStep(step) == step.report

\* AgentRunExcept that counts the failing step as completed.
AgentRunExcept_CountsFailedStep(e, st) ==
  [state |-> set_error(st, ExceptionStr(e)),
   result |-> AgentResult(st.agent_id, "", st.current_step + 1, FALSE,
                          ExceptionStr(e)),
   caught |-> e]

\* agent.py 125-144: the except clause of Agent.run.
AgentRunExcept(e, st) ==
  [state |-> set_error(st, ExceptionStr(e)),
   result |-> AgentResult(st.agent_id, "", st.current_step, FALSE,
                          ExceptionStr(e)),
   caught |-> e]

\* agent.py 107: run_plan has returned and the agent is marked completed.
MarkCompleted(st) == [st EXCEPT !.status = "completed"]

\* agent.py 108-123: the AgentResult is built from what run_plan returned;
\* that raises when content is no str, which the except clause catches.
AgentRunReturn(content, st) ==
  IF content.enc = "str"
    THEN [state |-> st,
          result |-> AgentResult(st.agent_id, content.val[1],
                                 st.current_step, TRUE, "-"),
          caught |-> NoCaught]
    ELSE AgentRunExcept(ValidationError, st)

NoContent == [enc |-> "pending", val |-> <<>>]

\* An event handed to socketio.emit: its name, the agent and the number sent.
Event(name, agent, value) == [event |-> name, agent_id |-> agent, value |-> value]

\* What socketio.emit raises when it fails.
EmitError == Exc("Exception", "emit failed", "")

\* The outcomes of one socketio.emit: it returns, or raises. Without a sink
\* nothing is emitted.
EmitOutcomes(given) == IF given THEN {"returns", "raises"} ELSE {"skipped"}

\* round(num / den) as Python rounds a float to an int: to the nearest, a tie
\* to the even neighbour.
PyRound(num, den) ==
  LET q == num \div den
      r == num % den
  IN IF 2 * r < den THEN q
     ELSE IF 2 * r > den THEN q + 1
     ELSE IF q % 2 = 0 THEN q ELSE q + 1

RunFresh ==
  /\ state = NewAgentState
  /\ current_plan = <<>>
  /\ idx = 0
  /\ history = <<>>
  /\ user_msgs = <<>>
  /\ result_content = NoContent
  /\ caught = NoCaught
  /\ agent_result = NoAgentResult
  /\ emitted = <<>>

RunIdle == rpc = "idle" /\ socketio = FALSE /\ RunFresh

\* Agent.run is called on an Agent just built (orchestrator.py 323-324), with
\* or without a SocketIO sink.
RunInit == rpc = "start" /\ socketio \in BOOLEAN /\ RunFresh

\* agent.py 77-85
RunStart ==
  /\ rpc = "start"
  /\ state' = [state EXCEPT !.agent_id = RunAgentId, !.status = "planning"]
  /\ rpc' = "planning"
  /\ UNCHANGED <<current_plan, idx, history, user_msgs, result_content, caught,
                 agent_result, socketio, emitted>>
  /\ UNCHANGED <<ovars, evars, pvars, svars, gvars, yvars, wvars, cvars, kvars>>

\* agent.py 86-98 and 125-144: create_plan returns a plan, and run_plan is
\* entered, or it raises. No plan-ready event is passed to this call.
RunPlanning ==
  /\ rpc = "planning"
  /\ \E o \in PlannerOutcomes :
       IF o.kind = "plan"
         THEN /\ current_plan' = o.plan
              /\ state' = [update_progress([state EXCEPT !.total_steps = Len(o.plan)])
                             EXCEPT !.status = "executing"]
              /\ rpc' = "loop"
              /\ UNCHANGED <<caught, agent_result>>
         ELSE LET r == AgentRunExcept(AgentError(o.error), state)
              IN /\ state' = r.state
                 /\ agent_result' = r.result
                 /\ caught' = r.caught
                 /\ rpc' = "returned"
                 /\ UNCHANGED current_plan
  /\ UNCHANGED <<idx, history, user_msgs, result_content, socketio, emitted>>
  /\ UNCHANGED <<ovars, evars, pvars, svars, gvars, yvars, wvars, cvars, kvars>>

\* agent.py 188-201: the next iteration emits agent_created before the first
\* step, builds the context of its step and calls execute_step. An emit that
\* raises ends run_plan and is caught by Agent.run (125-144).
RunPlanNextStep ==
  /\ rpc = "loop"
  /\ idx < Len(current_plan)
  /\ \E user_task \in UserTasks, emit \in EmitOutcomes(socketio /\ idx = 0) :
       IF emit = "raises"
         THEN LET r == AgentRunExcept(EmitError, state)
              IN /\ state' = r.state
                 /\ agent_result' = r.result
                 /\ caught' = r.caught
                 /\ rpc' = "returned"
                 /\ UNCHANGED <<user_msgs, emitted>>
         ELSE /\ emitted' =
                   IF emit = "returns"
                     THEN Append(emitted, Event("agent_created", RunAgentId,
                                                Len(current_plan)))
                     ELSE emitted
              /\ user_msgs' = Append(user_msgs,
                      [step |-> idx + 1,
                       user_msg |-> build_step_context(current_plan, idx,
                                                       history, user_task)])
              /\ rpc' = "in_step"
              /\ UNCHANGED <<state, caught, agent_result>>
  /\ UNCHANGED <<current_plan, idx, history, result_content, socketio>>
  /\ UNCHANGED <<ovars, evars, pvars, svars, gvars, yvars, wvars, cvars, kvars>>

\* agent.py 201-214 and 107: execute_step returns; the output joins the
\* history, the step is counted, agent_progress is emitted, and a report step
\* ends run_plan, after which the agent is marked completed. An emit that
\* raises is caught by Agent.run (125-144).
StepReturns ==
  /\ rpc = "in_step"
  /\ \E out \in StepOutputs, emit \in EmitOutcomes(socketio) :
       LET st == advance_step(state)
       IN /\ history' = Append(history, out)
          /\ IF emit = "raises"
               THEN LET r == AgentRunExcept(EmitError, st)
                    IN /\ state' = r.state
                       /\ agent_result' = r.result
                       /\ caught' = r.caught
                       /\ rpc' = "returned"
                       /\ UNCHANGED <<idx, result_content, emitted>>
               ELSE /\ emitted' =
                         IF emit = "returns"
                           THEN Append(emitted,
                                  Event("agent_progress", RunAgentId,
                                        PyRound((idx + 1) * 100, Len(current_plan))))
                           ELSE emitted
                    /\ IF IsReportStep(current_plan[idx + 1])
                         THEN /\ result_content' = out
                              /\ state' = MarkCompleted(st)
                              /\ rpc' = "completed"
                              /\ UNCHANGED <<idx, agent_result, caught>>
                         ELSE /\ state' = st
                              /\ idx' = idx + 1
                              /\ rpc' = "loop"
                              /\ UNCHANGED <<result_content, agent_result, caught>>
  /\ UNCHANGED <<current_plan, user_msgs, socketio>>
  /\ UNCHANGED <<ovars, evars, pvars, svars, gvars, yvars, wvars, cvars, kvars>>

\* agent.py 201 and 125-144: execute_step raises.
StepRaises ==
  /\ rpc = "in_step"
  /\ \E e \in StepErrors :
       LET r == AgentRunExcept(e, state)
       IN /\ state' = r.state
          /\ agent_result' = r.result
          /\ caught' = r.caught
  /\ rpc' = "returned"
  /\ UNCHANGED <<current_plan, idx, history, user_msgs, result_content,
                 socketio, emitted>>
  /\ UNCHANGED <<ovars, evars, pvars, svars, gvars, yvars, wvars, cvars, kvars>>

\* agent.py 188, 217 and 107: the loop ends without a report step; run_plan
\* returns the last output, or "", and the agent is marked completed.
RunPlanEnd ==
  /\ rpc = "loop"
  /\ idx >= Len(current_plan)
  /\ result_content' = (IF history # <<>> THEN history[Len(history)] ELSE Str(""))
  /\ state' = MarkCompleted(state)
  /\ rpc' = "completed"
  /\ UNCHANGED <<current_plan, idx, history, user_msgs, socketio, emitted,
                 caught, agent_result>>
  /\ UNCHANGED <<ovars, evars, pvars, svars, gvars, yvars, wvars, cvars, kvars>>

\* agent.py 108-144: Agent.run returns the successful AgentResult, or the
\* failed one of the except clause when building it raised.
RunReturnResult ==
  /\ rpc = "completed"
  /\ LET r == AgentRunReturn(result_content, state)
     IN /\ state' = r.state
        /\ agent_result' = r.result
        /\ caught' = r.caught
  /\ rpc' = "returned"
  /\ UNCHANGED <<current_plan, idx, history, user_msgs, result_content,
                 socketio, emitted>>
  /\ UNCHANGED <<ovars, evars, pvars, svars, gvars, yvars, wvars, cvars, kvars>>

\* ------------------- synthesis (core/synthesizer.py, orchestrator.py 177-282)
\* A str as its characters, so that strip() has something to remove.
Chars(s) == [enc |-> "str", val |-> s]

Alphabet == {" ", "a"}

\* The texts the response service may answer with.
SynthTexts == {Chars(s) : s \in UNION {[1..n -> Alphabet] : n \in 0..MaxText}}

RECURSIVE lstrip(_)
lstrip(s) == IF s # <<>> /\ Head(s) = " " THEN lstrip(Tail(s)) ELSE s

RECURSIVE rstrip(_)
rstrip(s) ==
  IF s # <<>> /\ s[Len(s)] = " " THEN rstrip(SubSeq(s, 1, Len(s) - 1)) ELSE s

\* strip() that removes nothing.
strip_Identity(v) == v

\* str.strip() without arguments, over the alphabet above.
strip(v) == Chars(rstrip(lstrip(v.val)))

\* Python truthiness of None and of a str.
Truthy(v) == v # PyNone /\ v.val # <<>>

\* The contents of the successful agents handed to the synthesizer.
AgentContents == {"r1", "r2"}

\* What run_agents hands to synthesize_final_answer: one AgentResult per
\* config, each a success with its content or a failure with content "".
WorkflowResults ==
  UNION {[1..n -> {AgentResult("agent", c, 1, TRUE, "-") : c \in AgentContents}
                    \cup {AgentResult("agent", "", 0, FALSE, "failed")}]
           : n \in 1..MaxAgents}

\* get_successful_results that keeps every result.
get_successful_results_KeepsAll(results) == results

\* models/agent.py 88-90.
RECURSIVE get_successful_results(_)
get_successful_results(results) ==
  IF results = <<>> THEN <<>>
  ELSE IF Head(results).success
    THEN <<Head(results)>> \o get_successful_results(Tail(results))
    ELSE get_successful_results(Tail(results))

\* synthesizer.py 62-65: the numbered responses, joined by the separator.
combined_responses(contents) ==
  [i \in 1..Len(contents) |-> <<"Agent", i, "response:", contents[i]>>]

\* synthesizer.py 77-84 and 165-172: the one request sent to the service.
CompletionRequest(user_query, contents, stream_flag) ==
  [system |-> <<user_query, combined_responses(contents)>>,
   user |-> "Provide the best synthesized answer as a detailed MARKDOWN report.",
   stream |-> stream_flag, temperature_tenths |-> 3]

NoRequest ==
  [system |-> <<>>, user |-> "", stream |-> FALSE, temperature_tenths |-> 0]

\* exceptions/agent.py 228-258: a SynthesisError and its two detail fields.
SynthesisError(message, agent_count, successful_agents) ==
  Exc("SynthesisError", message,
      "agent_count=" \o ToString(agent_count) \o ", successful_agents="
        \o ToString(successful_agents))

\* What a call produced: nothing yet, a str, or an exception.
NoOutcome == [kind |-> "none", value |-> PyNone, error |-> NoCaught]
Returned(v) == [kind |-> "returns", value |-> v, error |-> NoCaught]
Raised(e) == [kind |-> "raises", value |-> PyNone, error |-> e]

\* What create_completion(stream=False) does: it raises, or it answers a
\* message without a content attribute, with content None, or with a text.
CompletionOutcomes ==
  {[kind |-> "raises", content |-> PyNone],
   [kind |-> "no_content", content |-> PyNone],
   [kind |-> "content", content |-> PyNone]}
    \cup {[kind |-> "content", content |-> t] : t \in SynthTexts}

NoCompletion == [kind |-> "none", content |-> PyNone]

ProviderError == Exc("LLMServiceError", "LLM response failed", "")

\* synthesizer.py 77-116 (synthesize_answer) for a non-empty list and one
\* answer of the service.
synthesize_answer(contents, response) ==
  IF response.kind = "raises"
    THEN Raised(SynthesisError(
           "Failed to synthesize answer: " \o ExceptionStr(ProviderError),
           Len(contents), Len(contents)))
  ELSE IF response.kind = "no_content"
    THEN Raised(SynthesisError("LLM did not return content in synthesis response",
                               Len(contents), Len(contents)))
  ELSE IF ~Truthy(response.content) \/ ~Truthy(strip(response.content))
    THEN Raised(SynthesisError("LLM returned empty synthesis result",
                               Len(contents), Len(contents)))
  ELSE Returned(strip(response.content))

\* The deltas a streamed response may carry: None, "", " " and "a".
Deltas == {PyNone, Chars(<<>>), Chars(<<" ">>), Chars(<<"a">>)}

Streams == UNION {[1..n -> Deltas] : n \in 0..MaxChunks}

\* An entry of the trace of a streaming synthesis.
TraceEvent(kind, chunk) == [kind |-> kind, chunk |-> chunk]

\* synthesizer.py 176-183 for one delta: the callback (when given), then the
\* yield; nothing for a delta that is None or empty.
DeltaEvents_YieldFirst(delta, callback_given) ==
  IF ~Truthy(delta) THEN <<>>
  ELSE <<TraceEvent("yield", delta)>>
         \o (IF callback_given THEN <<TraceEvent("callback", delta)>> ELSE <<>>)

DeltaEvents(delta, callback_given) ==
  IF ~Truthy(delta) THEN <<>>
  ELSE (IF callback_given THEN <<TraceEvent("callback", delta)>> ELSE <<>>)
         \o <<TraceEvent("yield", delta)>>

\* The chunks of the trace entries of one kind, in order.
RECURSIVE ChunksOf(_, _)
ChunksOf(tr, kind) ==
  IF tr = <<>> THEN <<>>
  ELSE (IF Head(tr).kind = kind THEN <<Head(tr).chunk>> ELSE <<>>)
         \o ChunksOf(Tail(tr), kind)

\* "".join(chunks)
RECURSIVE Concat(_)
Concat(chunks) ==
  IF chunks = <<>> THEN <<>> ELSE Head(chunks).val \o Concat(Tail(chunks))

SynthEntries ==
  {"synthesize_answer", "synthesize_answer_streaming", "run_complete_workflow"}

NoMultiResult == [results |-> <<>>, synthesized_content |-> PyNone]

SynthFresh ==
  /\ multi_result = NoMultiResult
  /\ completion_calls = 0
  /\ completion_request = NoRequest
  /\ completion = NoCompletion
  /\ stream = <<>>
  /\ stream_end = "-"
  /\ consumed = <<>>
  /\ trace = <<>>
  /\ synthesized_content = <<>>
  /\ synth_out = NoOutcome
  /\ final_answer = NoOutcome

SynthIdle ==
  /\ spc = "idle"
  /\ entry = "-"
  /\ streaming = FALSE
  /\ wf_socketio = FALSE
  /\ chunk_callback = FALSE
  /\ synth_input = <<>>
  /\ SynthFresh

\* One call of synthesize_answer or of synthesize_answer_streaming (with or
\* without a chunk callback) on any list of contents, the empty one included,
\* or one call of run_complete_workflow with or without a SocketIO sink and
\* with either value of the streaming flag.
SynthInit ==
  /\ entry \in SynthEntries
  /\ spc = (CASE entry = "synthesize_answer" -> "synthesize"
              [] entry = "synthesize_answer_streaming" -> "generator"
              [] OTHER -> "call")
  /\ streaming \in (IF entry = "run_complete_workflow" THEN BOOLEAN ELSE {FALSE})
  /\ wf_socketio \in (IF entry = "run_complete_workflow" THEN BOOLEAN ELSE {FALSE})
  /\ chunk_callback \in (IF entry = "synthesize_answer_streaming"
                           THEN BOOLEAN ELSE {FALSE})
  /\ synth_input \in (IF entry = "run_complete_workflow" THEN {<<>>}
                       ELSE UNION {[1..n -> AgentContents] : n \in 0..MaxAgents})
  /\ SynthFresh

SynthQuery == "task"

\* orchestrator.py 263-269: run_complete_workflow runs the agents; what
\* run_agents returns is any list of results, one per config.
WorkflowRunAgents ==
  /\ spc = "call"
  /\ \E results \in WorkflowResults :
       multi_result' = [results |-> results, synthesized_content |-> PyNone]
  /\ spc' = "final"
  /\ UNCHANGED <<entry, streaming, wf_socketio, chunk_callback, synth_input,
                 completion_calls, completion_request, stream, stream_end,
                 consumed, trace, synthesized_content, synth_out, final_answer>>
  /\ UNCHANGED completion
  /\ UNCHANGED <<ovars, evars, pvars, rvars, gvars, yvars, wvars, cvars, kvars>>

\* orchestrator.py 196-232: the successful results are selected; with none
\* the SynthesisError of line 201 is raised and wrapped by line 236, else
\* their contents go to the streaming or the plain synthesis.
SynthesizeFinalAnswer ==
  /\ spc = "final"
  /\ LET successful_results == get_successful_results(multi_result.results)
     IN IF successful_results = <<>>
          THEN /\ final_answer' = Raised(SynthesisError(
                    "Failed to synthesize final answer: " \o ExceptionStr(
                       SynthesisError("No successful agent results to synthesize",
                                      Len(multi_result.results), 0)),
                    Len(multi_result.results), 0))
               /\ spc' = "returned"
               /\ UNCHANGED <<synth_input, chunk_callback>>
          ELSE /\ synth_input' = [i \in 1..Len(successful_results) |->
                                    successful_results[i].content]
               /\ chunk_callback' = (streaming /\ wf_socketio)
               /\ spc' = (IF streaming /\ wf_socketio
                            THEN "generator" ELSE "synthesize")
               /\ UNCHANGED final_answer
  /\ UNCHANGED <<entry, streaming, wf_socketio, multi_result, completion_calls,
                 completion_request, stream, stream_end, consumed, trace,
                 synthesized_content, synth_out>>
  /\ UNCHANGED completion
  /\ UNCHANGED <<ovars, evars, pvars, rvars, gvars, yvars, wvars, cvars, kvars>>

\* synthesizer.py 51-116: one synthesize_answer call.
SynthesizeAnswer ==
  /\ spc = "synthesize"
  /\ IF synth_input = <<>>
       THEN /\ synth_out' = Raised(SynthesisError(
                 "Cannot synthesize answer: no agent results provided", 0, 0))
            /\ UNCHANGED <<completion_calls, completion_request, completion>>
       ELSE \E response \in CompletionOutcomes :
              /\ completion' = response
              /\ completion_calls' = completion_calls + 1
              /\ completion_request' =
                   CompletionRequest(SynthQuery, synth_input, FALSE)
              /\ synth_out' = synthesize_answer(synth_input, response)
  /\ spc' = "synth_done"
  /\ UNCHANGED <<entry, streaming, wf_socketio, chunk_callback, synth_input,
                 multi_result, stream, stream_end, consumed, trace,
                 synthesized_content, final_answer>>
  /\ UNCHANGED <<ovars, evars, pvars, rvars, gvars, yvars, wvars, cvars, kvars>>

StreamingFailure ==
  "Failed to synthesize streaming answer: " \o ExceptionStr(ProviderError)

\* synthesizer.py 139-172: the generator up to the streaming response
\* call, run by the first next() of the consumer.
StreamOpen ==
  /\ spc = "generator"
  /\ IF synth_input = <<>>
       THEN /\ synth_out' = Raised(SynthesisError(
                 "Cannot synthesize answer: no agent results provided", 0, 0))
            /\ spc' = "synth_done"
            /\ UNCHANGED <<completion_calls, completion_request, stream, stream_end>>
       ELSE /\ completion_calls' = completion_calls + 1
            /\ completion_request' =
                 CompletionRequest(SynthQuery, synth_input, TRUE)
            /\ \/ /\ synth_out' = Raised(SynthesisError(
                         StreamingFailure, Len(synth_input), Len(synth_input)))
                  /\ spc' = "synth_done"
                  /\ UNCHANGED <<stream, stream_end>>
               \/ /\ stream' \in Streams
                  /\ stream_end' \in {"ok", "raises"}
                  /\ spc' = "streaming"
                  /\ UNCHANGED synth_out
  /\ UNCHANGED <<entry, streaming, wf_socketio, chunk_callback, synth_input,
                 multi_result, consumed, trace, synthesized_content, final_answer>>
  /\ UNCHANGED completion
  /\ UNCHANGED <<ovars, evars, pvars, rvars, gvars, yvars, wvars, cvars, kvars>>

\* synthesizer.py 175-186 for the next delta of the stream, and the consumer
\* of orchestrator.py 219-224 adding the chunk it was handed.
StreamDelta ==
  /\ spc = "streaming"
  /\ stream # <<>>
  /\ LET delta == Head(stream)
     IN /\ consumed' = Append(consumed, delta)
        /\ trace' = trace \o DeltaEvents(delta, chunk_callback)
        /\ synthesized_content' =
             (IF entry = "run_complete_workflow" /\ Truthy(delta)
                THEN synthesized_content \o delta.val ELSE synthesized_content)
  /\ stream' = Tail(stream)
  /\ UNCHANGED <<spc, entry, streaming, wf_socketio, chunk_callback, synth_input,
                 multi_result, completion_calls, completion_request, stream_end,
                 synth_out, final_answer>>
  /\ UNCHANGED completion
  /\ UNCHANGED <<ovars, evars, pvars, rvars, gvars, yvars, wvars, cvars, kvars>>

\* synthesizer.py 175, 188-200: the stream ends, or raises instead of
\* delivering a further chunk.
StreamEnd ==
  /\ spc = "streaming"
  /\ stream = <<>>
  /\ synth_out' = (IF stream_end = "ok" THEN Returned(PyNone)
                   ELSE Raised(SynthesisError(StreamingFailure, Len(synth_input),
                                              Len(synth_input))))
  /\ spc' = "synth_done"
  /\ UNCHANGED <<entry, streaming, wf_socketio, chunk_callback, synth_input,
                 multi_result, completion_calls, completion_request, stream,
                 stream_end, consumed, trace, synthesized_content, final_answer>>
  /\ UNCHANGED completion
  /\ UNCHANGED <<ovars, evars, pvars, rvars, gvars, yvars, wvars, cvars, kvars>>

\* A synthesize_final_answer that announces the completion of a failed answer.
FinalAnswerReturn_CompleteOnFailure ==
  /\ spc = "synth_done"
  /\ entry = "run_complete_workflow"
  /\ LET n == Len(multi_result.results)
         k == Len(get_successful_results(multi_result.results))
         answer == IF chunk_callback THEN Chars(synthesized_content)
                   ELSE synth_out.value
     IN IF synth_out.kind = "raises"
          THEN /\ final_answer' = Raised(SynthesisError(
                    "Failed to synthesize final answer: "
                       \o ExceptionStr(synth_out.error), n, k))
               /\ trace' = (IF chunk_callback
                              THEN Append(trace, TraceEvent("final_answer_complete", PyNone))
                              ELSE trace)
               /\ UNCHANGED multi_result
          ELSE /\ final_answer' = Returned(answer)
               /\ trace' = (IF chunk_callback
                              THEN Append(trace, TraceEvent("final_answer_complete", PyNone))
                              ELSE trace)
               /\ multi_result' = [multi_result EXCEPT !.synthesized_content = answer]
  /\ spc' = "returned"
  /\ UNCHANGED <<entry, streaming, wf_socketio, chunk_callback, synth_input,
                 completion_calls, completion_request, stream, stream_end, consumed,
                 synthesized_content, synth_out>>
  /\ UNCHANGED completion
  /\ UNCHANGED <<ovars, evars, pvars, rvars, gvars, yvars, wvars, cvars, kvars>>

\* orchestrator.py 226-241, 272-282: synthesize_final_answer returns what was
\* synthesized (after final_answer_complete, when streamed) or wraps the
\* exception; run_complete_workflow stores the answer in the MultiAgentResult.
FinalAnswerReturn ==
  /\ spc = "synth_done"
  /\ entry = "run_complete_workflow"
  /\ LET n == Len(multi_result.results)
         k == Len(get_successful_results(multi_result.results))
         answer == IF chunk_callback THEN Chars(synthesized_content)
                   ELSE synth_out.value
     IN IF synth_out.kind = "raises"
          THEN /\ final_answer' = Raised(SynthesisError(
                    "Failed to synthesize final answer: "
                       \o ExceptionStr(synth_out.error), n, k))
               /\ UNCHANGED <<trace, multi_result>>
          ELSE /\ final_answer' = Returned(answer)
               /\ trace' = (IF chunk_callback
                              THEN Append(trace, TraceEvent("final_answer_complete", PyNone))
                              ELSE trace)
               /\ multi_result' = [multi_result EXCEPT !.synthesized_content = answer]
  /\ spc' = "returned"
  /\ UNCHANGED <<entry, streaming, wf_socketio, chunk_callback, synth_input,
                 completion_calls, completion_request, stream, stream_end, consumed,
                 synthesized_content, synth_out>>
  /\ UNCHANGED completion
  /\ UNCHANGED <<ovars, evars, pvars, rvars, gvars, yvars, wvars, cvars, kvars>>

\* ------------------------------- the tool registry (tools/registry.py)
\* The names the registry is asked about.
ToolNames == {"final_response", "web_search", "unknown_tool"}

\* A tool object: its class, its name and its enabled field (base.py 16-23).
Tool(class, name, flag) == [class |-> class, name |-> name, enabled |-> flag]

NoTool == Tool("None", "", FALSE)

\* final_response.py 17-19 and web_search.py 19-27: the tools that can be
\* built; FinalResponseTool is always built with enabled=True.
ToolInstances ==
  {Tool("FinalResponseTool", "final_response", TRUE)}
    \cup {Tool("WebSearchTool", "web_search", flag) : flag \in BOOLEAN}

\* A tool class without overrides of the BaseTool methods.
Overrides_None(class) == {}

\* final_response.py 87-102: the BaseTool methods a class overrides.
Overrides(class) ==
  IF class = "FinalResponseTool" THEN {"disable", "is_enabled"} ELSE {}

\* base.py 80-82, final_response.py 100-102.
is_enabled(tool) ==
  IF "is_enabled" \in Overrides(tool.class) THEN TRUE ELSE tool.enabled

\* base.py 84-86.
tool_enable(tool) == [tool EXCEPT !.enabled = TRUE]

\* base.py 88-90, final_response.py 87-98 (a warning is logged, no more).
tool_disable(tool) ==
  IF "disable" \in Overrides(tool.class) THEN tool
  ELSE [tool EXCEPT !.enabled = FALSE]

\* self._tools.get(name)
ToolsGet(d, name) ==
  IF \E i \in 1..Len(d) : d[i].key = name
    THEN d[CHOOSE i \in 1..Len(d) : d[i].key = name].value
    ELSE NoTool

\* registry.py 72-85.
get_tool(name) ==
  LET tool == ToolsGet(tools, name)
  IN IF tool # NoTool /\ is_enabled(tool) THEN tool ELSE NoTool

\* registry.py 103-105.
get_enabled_tools ==
  SelectSeq([i \in 1..Len(tools) |-> tools[i].value], is_enabled)

\* registry.py 188-204: one definition per enabled tool, here its name.
get_tool_definitions ==
  [i \in 1..Len(get_enabled_tools) |-> get_enabled_tools[i].name]

\* base.py 92-117 for the parameter of final_response (final_response.py
\* 46-60), then final_response.py 75-85.
final_response_execute(call) ==
  IF call.args.content = PyNone
    THEN Raises("Required parameter 'content' is missing")
  ELSE IF call.args.query # PyNone THEN Raises("Unknown parameter 'query'")
  ELSE Returns(call.args.content)

\* registry.py 227-231: the parameters are validated and the tool runs.
RunTool(tool, call) ==
  IF tool.class = "FinalResponseTool" THEN final_response_execute(call)
  ELSE IF validate_parameters(call.args).raises THEN validate_parameters(call.args)
  ELSE web_search_execute(call)

\* What ToolRegistry.execute_tool did: ToolNotFoundError, or the tool ran
\* and outcome is what it returned or raised.
ExecResult(not_found, message, outcome) ==
  [not_found |-> not_found, message |-> message, outcome |-> outcome]

NoExecResult == ExecResult(FALSE, "-", Returns(PyNone))

\* execute_tool that looks the tool up with get_tool_force.
ToolRegistry_execute_tool_Force(call) ==
  LET tool == ToolsGet(tools, call.name)
  IN IF tool = NoTool
       THEN ExecResult(TRUE, "Tool not found", Returns(PyNone))
       ELSE ExecResult(FALSE, "-", RunTool(tool, call))

\* registry.py 206-231.
ToolRegistry_execute_tool(call) ==
  LET tool == get_tool(call.name)
  IN IF tool = NoTool
       THEN (IF ToolsGet(tools, call.name) # NoTool
               THEN ExecResult(TRUE, "Tool is disabled", Returns(PyNone))
               ELSE ExecResult(TRUE, "Tool not found", Returns(PyNone)))
       ELSE ExecResult(FALSE, "-", RunTool(tool, call))

\* The keyword arguments execute_tool is called with are a dict.
RegistryCalls == {call \in ToolCalls : call.args.type = "dict"}

NoCall == ToolCall("-", NoArgs, "returns")

\* What last changed the enabled state of each name: nothing, its
\* registration (enabled or disabled), enable_tool or disable_tool.
NoToggles == [n \in ToolNames |-> "none"]

RegIdle ==
  /\ tools = <<>>
  /\ last_toggle = NoToggles
  /\ exec_call = NoCall
  /\ exec_result = NoExecResult

\* registry.py 21-24: a new ToolRegistry.
RegInit == RegIdle

\* registry.py 26-51: the tool is stored under its name, replacing a tool
\* registered under that name before.
RegisterTool ==
  /\ \E tool \in ToolInstances :
       /\ tools' = DictSet(tools, tool.name, tool)
       /\ last_toggle' = [last_toggle EXCEPT ![tool.name] =
                            IF tool.enabled THEN "registered_enabled"
                            ELSE "registered_disabled"]
  /\ UNCHANGED <<exec_call, exec_result>>
  /\ UNCHANGED <<ovars, evars, pvars, rvars, svars, yvars, wvars, cvars, kvars>>

\* registry.py 137-152.
EnableTool ==
  /\ \E name \in ToolNames :
       LET tool == ToolsGet(tools, name)
       IN IF tool # NoTool
            THEN /\ tools' = DictSet(tools, name, tool_enable(tool))
                 /\ last_toggle' = [last_toggle EXCEPT ![name] = "enable"]
            ELSE UNCHANGED <<tools, last_toggle>>
  /\ UNCHANGED <<exec_call, exec_result>>
  /\ UNCHANGED <<ovars, evars, pvars, rvars, svars, yvars, wvars, cvars, kvars>>

\* registry.py 154-169.
DisableTool ==
  /\ \E name \in ToolNames :
       LET tool == ToolsGet(tools, name)
       IN IF tool # NoTool
            THEN /\ tools' = DictSet(tools, name, tool_disable(tool))
                 /\ last_toggle' = [last_toggle EXCEPT ![name] = "disable"]
            ELSE UNCHANGED <<tools, last_toggle>>
  /\ UNCHANGED <<exec_call, exec_result>>
  /\ UNCHANGED <<ovars, evars, pvars, rvars, svars, yvars, wvars, cvars, kvars>>

\* registry.py 206-231: one execute_tool call.
ExecuteTool ==
  /\ \E call \in RegistryCalls :
       /\ exec_call' = call
       /\ exec_result' = ToolRegistry_execute_tool(call)
  /\ UNCHANGED <<tools, last_toggle>>
  /\ UNCHANGED <<ovars, evars, pvars, rvars, svars, yvars, wvars, cvars, kvars>>

\* ------------------------------------------ the retry wrapper (utils/retry.py)

\* retry.py 17-19: the default delays, in seconds.
base_delay == 1
exponential_base == 2
max_delay == 60

RECURSIVE Pow(_, _)
Pow(b, n) == IF n = 0 THEN 1 ELSE b * Pow(b, n - 1)

\* retry.py 55: min(base_delay * (exponential_base ** attempt), max_delay)
backoff_delay(n) == Min(base_delay * Pow(exponential_base, n), max_delay)

\* retry.py 58-59: 0.5 + random.random() * 0.5, in hundredths; random() is
\* taken from [0, 1).
JitterFactors == {50, 75, 99}

\* The exception types a caller configures: the default Exception, or the
\* pair of NETWORK_RETRY (retry.py 184-188).
ExceptionTypes == {{"Exception"}, {"ConnectionError", "TimeoutError"}}

\* What one call of the wrapped function does.
FuncOutcomes ==
  {Returned(Str("ok")),
   Raised(Exc("ConnectionError", "e1", "")),
   Raised(Exc("ConnectionError", "e2", "")),
   Raised(Exc("ValueError", "v1", ""))}

\* An except clause that catches whatever is raised.
Catches_Everything(types, e) == TRUE

\* retry.py 45: "except exceptions as e" catches an instance of one of the
\* types; every exception of FuncOutcomes is an Exception.
Catches(types, e) == "Exception" \in types \/ e.type \in types

Sleep(n, d) == [after |-> n, delay |-> d]

\* The max_retries arguments tried; a negative one leaves the loop empty.
RetryBudgets == -1..(MaxRetries + 1)

RetryIdle ==
  /\ ypc = "idle"
  /\ retry_max = 0
  /\ exceptions = {}
  /\ jitter = FALSE
  /\ attempt = 0
  /\ last_exception = NoCaught
  /\ func_calls = <<>>
  /\ slept = <<>>
  /\ retry_out = NoOutcome

\* retry.py 39-42: the wrapper is called; the loop is about to start.
RetryInit ==
  /\ ypc = "loop"
  /\ retry_max \in RetryBudgets
  /\ exceptions \in ExceptionTypes
  /\ jitter \in BOOLEAN
  /\ attempt = 0
  /\ last_exception = NoCaught
  /\ func_calls = <<>>
  /\ slept = <<>>
  /\ retry_out = NoOutcome

\* retry.py 42-44: one pass of the loop in which the function returns.
RetryCallReturns ==
  /\ ypc = "loop"
  /\ attempt <= retry_max
  /\ \E o \in FuncOutcomes :
       /\ o.kind = "returns"
       /\ func_calls' = Append(func_calls, o)
       /\ retry_out' = o
  /\ ypc' = "done"
  /\ UNCHANGED <<retry_max, exceptions, jitter, attempt, last_exception, slept>>
  /\ UNCHANGED <<ovars, evars, pvars, rvars, svars, gvars, wvars, cvars, kvars>>

\* retry.py 42-66: one pass of the loop in which the function raises. An
\* exception the except clause does not catch leaves the wrapper; a caught
\* one is raised again on the last pass and slept on otherwise.
RetryCallRaises ==
  /\ ypc = "loop"
  /\ attempt <= retry_max
  /\ \E o \in FuncOutcomes :
       /\ o.kind = "raises"
       /\ func_calls' = Append(func_calls, o)
       /\ IF ~Catches(exceptions, o.error)
          THEN /\ retry_out' = o
               /\ ypc' = "done"
               /\ UNCHANGED <<attempt, last_exception, slept>>
          ELSE /\ last_exception' = o.error
               /\ IF attempt = retry_max
                  THEN /\ retry_out' = Raised(o.error)
                       /\ ypc' = "done"
                       /\ UNCHANGED <<attempt, slept>>
                  ELSE /\ \E f \in (IF jitter THEN JitterFactors ELSE {100}) :
                            slept' = Append(slept,
                                            Sleep(attempt, backoff_delay(attempt) * f))
                       /\ attempt' = attempt + 1
                       /\ UNCHANGED <<retry_out, ypc>>
  /\ UNCHANGED <<retry_max, exceptions, jitter>>
  /\ UNCHANGED <<ovars, evars, pvars, rvars, svars, gvars, wvars, cvars, kvars>>

\* retry.py 68-70: the loop ran out of passes without a return or a raise,
\* which range(max_retries + 1) allows for a negative max_retries only; there
\* is no last exception then and the wrapper returns None.
RetryLoopEnd ==
  /\ ypc = "loop"
  /\ attempt > retry_max
  /\ retry_out' = (IF last_exception = NoCaught THEN Returned(PyNone)
                   ELSE Raised(last_exception))
  /\ ypc' = "done"
  /\ UNCHANGED <<retry_max, exceptions, jitter, attempt, last_exception,
                 func_calls, slept>>
  /\ UNCHANGED <<ovars, evars, pvars, rvars, svars, gvars, wvars, cvars, kvars>>

\* --------- concurrent workflows (handlers.py 75-110, orchestrator.py 64-175)

\* handlers.py 75-79: every incoming message starts start_agent_workflow in a
\* thread of its own; container.py 312-321 registers AgentOrchestrator as a
\* singleton, so the threads call run_complete_workflow, and through it
\* run_agents, on one instance. Two such invocations are followed.
Invocations == {1, 2}

\* What the agent with index a of invocation w returns from Agent.run.
InvocationResult(w, a) ==
  AgentResult(agent_id(a), <<"answer", w, a>>, 1, TRUE, "-")

WorkflowsIdle ==
  /\ inv_pc = [w \in Invocations |-> "idle"]
  /\ inv_configs = [w \in Invocations |-> 0]
  /\ inv_threads = [w \in Invocations |-> [a \in AgentIdx |-> "none"]]
  /\ self_agent_results = <<>>
  /\ inv_ret = [w \in Invocations |-> <<>>]

\* orchestrator.py 64: the orchestrator is new and no message has come in.
WorkflowsInit == WorkflowsIdle

\* orchestrator.py 86-116: run_agents binds self.agent_results to a new
\* empty dict and starts one thread per config, with the ids agent_1, ...
InvocationStart(w) ==
  /\ inv_pc[w] = "idle"
  /\ \E n \in 1..MaxAgents :
       /\ inv_configs' = [inv_configs EXCEPT ![w] = n]
       /\ inv_threads' = [inv_threads EXCEPT ![w] =
                            [a \in AgentIdx |-> IF a <= n THEN "running" ELSE "none"]]
  /\ self_agent_results' = <<>>
  /\ inv_pc' = [inv_pc EXCEPT ![w] = "join"]
  /\ UNCHANGED inv_ret
  /\ UNCHANGED <<ovars, evars, pvars, rvars, svars, gvars, yvars, cvars, kvars>>

\* orchestrator.py 330-331 (and 354-364): the wrapper stores the agent's
\* result in the dict self.agent_results is bound to at that moment.
InvocationStore(w, a) ==
  /\ inv_threads[w][a] = "running"
  /\ self_agent_results' =
       DictSet(self_agent_results, agent_id(a), InvocationResult(w, a))
  /\ inv_threads' = [inv_threads EXCEPT ![w][a] = "done"]
  /\ UNCHANGED <<inv_pc, inv_configs, inv_ret>>
  /\ UNCHANGED <<ovars, evars, pvars, rvars, svars, gvars, yvars, cvars, kvars>>

\* orchestrator.py 143-175: the call's own threads are joined and the values
\* of self.agent_results are returned.
InvocationReturn(w) ==
  /\ inv_pc[w] = "join"
  /\ \A a \in 1..inv_configs[w] : inv_threads[w][a] = "done"
  /\ inv_ret' = [inv_ret EXCEPT ![w] = DictValues(self_agent_results)]
  /\ inv_pc' = [inv_pc EXCEPT ![w] = "returned"]
  /\ UNCHANGED <<inv_configs, inv_threads, self_agent_results>>
  /\ UNCHANGED <<ovars, evars, pvars, rvars, svars, gvars, yvars, cvars, kvars>>

\* ----------------------------------- the service container (container.py)

\* handlers.py 75-79, 107: each workflow thread resolves through the one
\* container; two threads are followed.
ResolveThreads == {1, 2}

\* container.py 312-321 and 285-290: AgentOrchestrator is a singleton whose
\* factory resolves AnswerSynthesizer, a transient service; what the factory
\* of AnswerSynthesizer resolves in turn is left out.
Services == {"AgentOrchestrator", "AnswerSynthesizer"}

IsSingleton(service_type) == service_type = "AgentOrchestrator"

Dependencies(service_type) ==
  IF service_type = "AgentOrchestrator" THEN <<"AnswerSynthesizer">> ELSE <<>>

\* The n-th instance a factory made.
Instance(service_type, n) == [enc |-> "instance", val |-> <<service_type, n>>]

CircularDependency(service_type) ==
  Exc("ValueError", "Circular dependency detected for " \o service_type, "")

FactoryFailure == Exc("Exception", "factory failed", "")

\* One resolve call: where it is, what _create_instance has made, and the
\* exception on its way out.
Frame(service_type, pc, value, exc) ==
  [type |-> service_type, pc |-> pc, value |-> value, exc |-> exc]

Top(t) == call_stack[t][Len(call_stack[t])]

AtPc(t, pc) == call_stack[t] # <<>> /\ Top(t).pc = pc

SetTop(t, frame) ==
  [call_stack EXCEPT ![t] = [@ EXCEPT ![Len(@)] = frame]]

\* The innermost resolve call of thread t ends with the outcome o: the
\* workflow thread gets it, or the factory that made the call goes on with
\* the dependency, or is left by the exception (the factories catch none).
Leave(t, o) ==
  LET rest == SubSeq(call_stack[t], 1, Len(call_stack[t]) - 1)
  IN IF rest = <<>>
       THEN /\ call_stack' = [call_stack EXCEPT ![t] = <<>>]
            /\ resolved' = [resolved EXCEPT ![t] = o]
       ELSE /\ call_stack' = [call_stack EXCEPT ![t] =
                 [rest EXCEPT ![Len(rest)] =
                    IF o.kind = "raises"
                      THEN [@ EXCEPT !.pc = "finally", !.exc = o.error]
                      ELSE [@ EXCEPT !.pc = "factory"]]]
            /\ UNCHANGED resolved

ContainerIdle ==
  /\ call_stack = [t \in ResolveThreads |-> <<>>]
  /\ resolved = [t \in ResolveThreads |-> NoOutcome]
  /\ building = {}
  /\ singletons = [s \in Services |-> PyNone]
  /\ factory_calls = [s \in Services |-> 0]

\* container.py 49-52 and 234-321: the configured container, nothing resolved.
ContainerInit == ContainerIdle

\* handlers.py 107 (or any other caller): a thread calls resolve.
ResolveCall(t) ==
  /\ call_stack[t] = <<>>
  /\ resolved[t] = NoOutcome
  /\ \E service_type \in Services :
       call_stack' = [call_stack EXCEPT ![t] =
                        <<Frame(service_type, "check", PyNone, NoCaught)>>]
  /\ UNCHANGED <<resolved, building, singletons, factory_calls>>
  /\ UNCHANGED <<ovars, evars, pvars, rvars, svars, gvars, yvars, wvars, cvars>>

\* container.py 128-140: a type found in self._building is a circular
\* dependency; else the lifetime decides how to go on.
ResolveCheck(t) ==
  /\ AtPc(t, "check")
  /\ IF Top(t).type \in building
       THEN Leave(t, Raised(CircularDependency(Top(t).type)))
       ELSE /\ call_stack' = SetTop(t, [Top(t) EXCEPT !.pc =
                   IF IsSingleton(Top(t).type) THEN "lookup" ELSE "create"])
            /\ UNCHANGED resolved
  /\ UNCHANGED <<building, singletons, factory_calls>>
  /\ UNCHANGED <<ovars, evars, pvars, rvars, svars, gvars, yvars, wvars, cvars>>

\* container.py 144-145: a singleton made before is returned.
SingletonLookup(t) ==
  /\ AtPc(t, "lookup")
  /\ IF singletons[Top(t).type] # PyNone
       THEN Leave(t, Returned(singletons[Top(t).type]))
       ELSE /\ call_stack' = SetTop(t, [Top(t) EXCEPT !.pc = "create"])
            /\ UNCHANGED resolved
  /\ UNCHANGED <<building, singletons, factory_calls>>
  /\ UNCHANGED <<ovars, evars, pvars, rvars, svars, gvars, yvars, wvars, cvars>>

\* container.py 159-164: the type joins self._building and the factory is
\* called.
CreateInstance(t) ==
  /\ AtPc(t, "create")
  /\ building' = building \cup {Top(t).type}
  /\ factory_calls' = [factory_calls EXCEPT ![Top(t).type] = @ + 1]
  /\ call_stack' = SetTop(t, [Top(t) EXCEPT !.pc =
                       IF Dependencies(Top(t).type) # <<>>
                         THEN "dependencies" ELSE "factory"])
  /\ UNCHANGED <<resolved, singletons>>
  /\ UNCHANGED <<ovars, evars, pvars, rvars, svars, gvars, yvars, wvars, cvars>>

\* container.py 312-313: the factory resolves its dependency.
FactoryResolves(t) ==
  /\ AtPc(t, "dependencies")
  /\ call_stack' = [call_stack EXCEPT ![t] =
       Append([@ EXCEPT ![Len(@)].pc = "waiting"],
              Frame(Dependencies(Top(t).type)[1], "check", PyNone, NoCaught))]
  /\ UNCHANGED <<resolved, building, singletons, factory_calls>>
  /\ UNCHANGED <<ovars, evars, pvars, rvars, svars, gvars, yvars, wvars, cvars>>

\* container.py 164: the factory returns a new instance, or raises.
FactoryReturns(t) ==
  /\ AtPc(t, "factory")
  /\ \/ call_stack' = SetTop(t, [Top(t) EXCEPT
            !.pc = "finally",
            !.value = Instance(Top(t).type, factory_calls[Top(t).type])])
     \/ call_stack' = SetTop(t, [Top(t) EXCEPT
            !.pc = "finally", !.exc = FactoryFailure])
  /\ UNCHANGED <<resolved, building, singletons, factory_calls>>
  /\ UNCHANGED <<ovars, evars, pvars, rvars, svars, gvars, yvars, wvars, cvars>>

\* container.py 174-175 and 154: the finally clause takes the type out of
\* self._building; an exception goes on to the caller, a transient instance
\* is returned.
CreateFinally(t) ==
  /\ AtPc(t, "finally")
  /\ building' = building \ {Top(t).type}
  /\ IF Top(t).exc # NoCaught
       THEN Leave(t, Raised(Top(t).exc))
       ELSE IF IsSingleton(Top(t).type)
         THEN /\ call_stack' = SetTop(t, [Top(t) EXCEPT !.pc = "store"])
              /\ UNCHANGED resolved
         ELSE Leave(t, Returned(Top(t).value))
  /\ UNCHANGED <<singletons, factory_calls>>
  /\ UNCHANGED <<ovars, evars, pvars, rvars, svars, gvars, yvars, wvars, cvars>>

\* container.py 148-149: the new singleton is stored and returned.
SingletonStore(t) ==
  /\ AtPc(t, "store")
  /\ singletons' = [singletons EXCEPT ![Top(t).type] = Top(t).value]
  /\ Leave(t, Returned(Top(t).value))
  /\ UNCHANGED <<building, factory_calls>>
  /\ UNCHANGED <<ovars, evars, pvars, rvars, svars, gvars, yvars, wvars, cvars>>

\* ------------------------------------------------------- specifications
Sinks == {"socketio", "callback", "none"}

OrchStart ==
  /\ loop_i = 1
  /\ first_agent_plan_ready = FALSE
  /\ timer_thread = "none"
  /\ timer_stop_event = FALSE
  /\ tpc = "idle"
  /\ ticks = 0
  /\ completed_event = NoCompletedEvent
  /\ ret = NoReturn
  /\ apc = [a \in AgentIdx |-> "idle"]
  /\ status = [a \in AgentIdx |-> "idle"]
  /\ plan = [a \in AgentIdx |-> <<>>]
  /\ current_step = [a \in AgentIdx |-> 0]
  /\ run_result = [a \in AgentIdx |-> NoAgentResult]

OrchIdle ==
  /\ OrchStart
  /\ opc = "idle"
  /\ nAgents = 1
  /\ sink = "none"
  /\ agent_results = <<>>

\* run_agents is called on an orchestrator that is new or has served earlier
\* calls, with 1..MaxAgents configs and any of the three sinks.
OrchInit ==
  /\ OrchStart
  /\ opc = "call"
  /\ nAgents \in 1..MaxAgents
  /\ sink \in Sinks
  /\ agent_results \in {LeftOverResults(n) : n \in 0..(MaxAgents + 1)}

AgentNext(a) ==
  \/ AgentRunBegin(a)
  \/ WrapperCatchesFailure(a)
  \/ PlanningStep(a)
  \/ SignalCheck(a)
  \/ SignalSet(a)
  \/ ExecuteStep(a)
  \/ RunPlanFallThrough(a)
  \/ StoreResult(a)

Init == OrchInit /\ ExecIdle /\ PlanIdle /\ RunIdle /\ SynthIdle /\ RegIdle /\ RetryIdle /\ WorkflowsIdle /\ ClockIdle /\ ContainerIdle

Next ==
  \/ RunAgentsStart
  \/ StartAgentThread
  \/ WaitFirstPlanReady
  \/ JoinAgentThread
  \/ StopTimer
  \/ JoinTimer
  \/ ReturnResults
  \/ TimerCheck
  \/ TimerTick
  \/ \E a \in AgentIdx : AgentNext(a)

Spec == Init /\ [][Next]_vars

\* run_agents for one agent config and a sink, with the clock moving. The
\* broadcaster is a thread in both modes and gets to run.
InitTimer ==
  /\ OrchInit /\ nAgents = 1 /\ sink # "none" /\ agent_results = <<>>
  /\ ExecIdle /\ PlanIdle /\ RunIdle /\ SynthIdle /\ RegIdle
  /\ RetryIdle /\ WorkflowsIdle /\ ClockIdle /\ ContainerIdle

NextTimer ==
  \/ Next
  \/ ClockAdvance

SpecTimer ==
  InitTimer /\ [][NextTimer]_vars /\ WF_vars(TimerCheck) /\ WF_vars(TimerTick)

InitExec == OrchIdle /\ ExecInit /\ PlanIdle /\ RunIdle /\ SynthIdle /\ RegIdle /\ RetryIdle /\ WorkflowsIdle /\ ClockIdle /\ ContainerIdle

NextExec ==
  \/ ToolCallsResponse
  \/ DirectTextResponse
  \/ EmptyResponse
  \/ ExceptionResponse
  \/ LoopExit

SpecExec == InitExec /\ [][NextExec]_vars

\* execute_step with a completion service that may go on answering beyond
\* the bound of the model. Every completion call returns or raises: a step
\* of the call that can be taken is taken.
NextExecFair ==
  \/ NextExec
  \/ ToolCallsResponseRepeated

SpecExecFair == InitExec /\ [][NextExecFair]_vars /\ WF_vars(NextExecFair)

InitPlan == OrchIdle /\ ExecIdle /\ PlanInit /\ RunIdle /\ SynthIdle /\ RegIdle /\ RetryIdle /\ WorkflowsIdle /\ ClockIdle /\ ContainerIdle

NextPlan == CreatePlanCall

SpecPlan == InitPlan /\ [][NextPlan]_vars

InitAgent == OrchIdle /\ ExecIdle /\ PlanIdle /\ RunInit /\ SynthIdle /\ RegIdle /\ RetryIdle /\ WorkflowsIdle /\ ClockIdle /\ ContainerIdle

NextAgent ==
  \/ RunStart
  \/ RunPlanning
  \/ RunPlanNextStep
  \/ StepReturns
  \/ StepRaises
  \/ RunPlanEnd
  \/ RunReturnResult

SpecAgent == InitAgent /\ [][NextAgent]_vars

InitSynth == OrchIdle /\ ExecIdle /\ PlanIdle /\ RunIdle /\ SynthInit /\ RegIdle /\ RetryIdle /\ WorkflowsIdle /\ ClockIdle /\ ContainerIdle

NextSynth ==
  \/ WorkflowRunAgents
  \/ SynthesizeFinalAnswer
  \/ SynthesizeAnswer
  \/ StreamOpen
  \/ StreamDelta
  \/ StreamEnd
  \/ FinalAnswerReturn

SpecSynth == InitSynth /\ [][NextSynth]_vars

InitReg ==
  OrchIdle /\ ExecIdle /\ PlanIdle /\ RunIdle /\ SynthIdle /\ RegInit /\ RetryIdle /\ WorkflowsIdle /\ ClockIdle /\ ContainerIdle

NextReg ==
  \/ RegisterTool
  \/ EnableTool
  \/ DisableTool
  \/ ExecuteTool

SpecReg == InitReg /\ [][NextReg]_vars

InitRetry ==
  OrchIdle /\ ExecIdle /\ PlanIdle /\ RunIdle /\ SynthIdle /\ RegIdle /\ RetryInit /\ WorkflowsIdle /\ ClockIdle /\ ContainerIdle

NextRetry ==
  \/ RetryCallReturns
  \/ RetryCallRaises
  \/ RetryLoopEnd

SpecRetry == InitRetry /\ [][NextRetry]_vars

InitWorkflows ==
  /\ OrchIdle /\ ExecIdle /\ PlanIdle /\ RunIdle /\ SynthIdle /\ RegIdle
  /\ RetryIdle /\ WorkflowsInit /\ ClockIdle /\ ContainerIdle

NextWorkflows ==
  \E w \in Invocations :
    \/ InvocationStart(w)
    \/ \E a \in AgentIdx : InvocationStore(w, a)
    \/ InvocationReturn(w)

SpecWorkflows == InitWorkflows /\ [][NextWorkflows]_vars

InitContainer ==
  /\ OrchIdle /\ ExecIdle /\ PlanIdle /\ RunIdle /\ SynthIdle /\ RegIdle
  /\ RetryIdle /\ WorkflowsIdle /\ ClockIdle /\ ContainerInit

NextContainer ==
  \E t \in ResolveThreads :
    \/ ResolveCall(t)
    \/ ResolveCheck(t)
    \/ SingletonLookup(t)
    \/ CreateInstance(t)
    \/ FactoryResolves(t)
    \/ FactoryReturns(t)
    \/ CreateFinally(t)
    \/ SingletonStore(t)

SpecContainer == InitContainer /\ [][NextContainer]_vars

\* ================================================================ claims

\* ---- run_agents (Spec)
AllAgentsDone == \A a \in 1..nAgents : apc[a] = "done"

\* C1: when run_agents, called with N agent configs, returns, the results of
\* the MultiAgentResult hold exactly N entries, whatever each agent's outcome.
C1_ResultsLengthIsN == opc = "returned" => Len(ret.results) = nAgents

\* A call with two agents returned, one agent having succeeded and one failed.
C1_Witness ==
  /\ opc = "returned"
  /\ nAgents = 2
  /\ \E i, j \in 1..Len(ret.results) :
       ret.results[i].success /\ ~ret.results[j].success

\* C2: run_agents gets past the plan-ready wait whatever the agents' failures
\* are: once every agent thread has ended, the orchestrator is not left
\* blocked in first_agent_plan_ready.wait() on an event nobody will set.
C2_ProceedsPastWait ==
  (opc = "wait" /\ AllAgentsDone) => first_agent_plan_ready

\* The result stored under an agent's id.
StoredResult(a) ==
  LET i == CHOOSE i \in 1..Len(agent_results) : agent_results[i].key = agent_id(a)
  IN agent_results[i].value

\* Agent a got its plan from create_plan and went through agent.py 90-91.
PassedPlanReady(a) ==
  \/ apc[a] = "execute"
  \/ apc[a] = "store" /\ run_result[a].error_message # "planning"
  \/ apc[a] = "done" /\ StoredResult(a).error_message \notin {"planning", "wrapper"}

\* C13: the broadcaster exists and ticks only once the plan-ready signal is
\* set, the signal is set only once some agent came back from create_plan with
\* a plan, and while run_agents is still spawning or waiting (its start time
\* not yet taken) there is no broadcaster and no tick.
C13_NoTickBeforePlanReady ==
  /\ (tpc # "idle" \/ ticks > 0 \/ timer_thread # "none") => first_agent_plan_ready
  /\ opc \in {"call", "spawn", "wait"} =>
       (tpc = "idle" /\ ticks = 0 /\ timer_thread = "none")
  /\ first_agent_plan_ready => \E a \in 1..nAgents : PassedPlanReady(a)

\* A tick was emitted while one agent executes and the other still plans.
C13_Witness ==
  /\ nAgents = 2
  /\ ticks >= 1
  /\ \E a, b \in 1..nAgents : apc[a] = "execute" /\ apc[b] = "planning"

\* A step in which the broadcaster emits one timer update.
TimerUpdateEmitted == tpc = "emit" /\ tpc' = "check"

\* C14: once run_agents has joined every agent thread and stopped the
\* broadcaster (it is about to emit agents_completed, or has returned), no
\* timer update is emitted any more, whatever the sink.
C14_NoTickAfterStop ==
  [][(opc \in {"finish", "returned"}) => (~TimerUpdateEmitted)]_vars

\* C15: the agents_completed notification carries total_agents equal to the
\* number of agent configs run_agents was called with, however many of the
\* agents failed.
C15_TotalAgentsIsN ==
  completed_event.emitted => completed_event.total_agents = nAgents

\* agents_completed was emitted for two agents of which one had failed.
C15_Witness ==
  /\ completed_event.emitted
  /\ nAgents = 2
  /\ ret.successful_agents = 1

\* run_agents has joined every agent thread.
AfterJoin == opc \in {"stop", "join_timer", "finish", "returned"}

\* The result under agent a's id is a's own terminal result: it carries a's
\* id, its success flag is a's outcome, and its content is empty or an output
\* of one of a's own steps.
OwnTerminalResult(a) ==
  LET r == StoredResult(a)
  IN /\ r.agent_id = agent_id(a)
     /\ r.success = (status[a] = "completed")
     /\ ~r.success => r.content = <<>>
     /\ r.content # <<>> => r.content = StepOutput(a, r.steps_completed)

C17_PlanReadySingleFire ==
  /\ []((\A a \in 1..nAgents : ~PassedPlanReady(a)) => ~first_agent_plan_ready)
  /\ [][/\ first_agent_plan_ready => first_agent_plan_ready'
        /\ first_agent_plan_ready' # first_agent_plan_ready =>
             \E a \in 1..nAgents :
               /\ apc[a] = "set" /\ apc'[a] = "execute"
               /\ plan[a] = plan'[a]
               /\ status[a] = "planning"]_vars

\* Two agents read the event as unset; one has set it, the other is about to.
C17_Witness ==
  /\ first_agent_plan_ready
  /\ \E a, b \in 1..nAgents : apc[a] = "set" /\ apc[b] = "execute"

\* C26: the plan-ready signal is no barrier. An agent that has its plan is
\* never held back by the other agents: whatever they are doing (not started,
\* planning, failed, done), its next step (reading or setting the event,
\* executing a step, ending the plan, storing its result) can be taken.
C26_PlanReadyIsNoBarrier ==
  \A a \in 1..nAgents :
    /\ (apc[a] = "signal") => ENABLED SignalCheck(a)
    /\ (apc[a] = "set") => ENABLED SignalSet(a)
    /\ (apc[a] = "execute") => ENABLED (ExecuteStep(a) \/ RunPlanFallThrough(a))
    /\ (apc[a] = "store") => ENABLED StoreResult(a)

\* An agent has run all the steps of its plan and stored its successful
\* result while another agent is still planning.
C26_Witness ==
  \E a, b \in 1..nAgents :
    /\ apc[a] = "done"
    /\ StoredResult(a).success
    /\ StoredResult(a).steps_completed = MaxSteps
    /\ apc[b] = "planning"
    /\ opc # "idle"

\* agents_completed goes to a SocketIO sink only, only once every agent
\* thread has ended, and after it neither a second agents_completed nor any
\* step of an agent thread (so no agent_progress, agent_completed or
\* agent_failed) follows.
CompletedAfterAgentEvents ==
  /\ [](completed_event.emitted => (sink = "socketio" /\ AllAgentsDone))
  /\ [][completed_event.emitted =>
          UNCHANGED <<completed_event, apc, status, current_step, agent_results>>]_vars

\* The steps of the run_agents call itself.
RunAgentsStep ==
  \/ RunAgentsStart
  \/ StartAgentThread
  \/ WaitFirstPlanReady
  \/ JoinAgentThread
  \/ StopTimer
  \/ JoinTimer
  \/ ReturnResults

\* C29: with a SocketIO sink agents_completed is emitted exactly once per
\* run_agents call, after every agent thread has ended and so after every
\* agent_progress, agent_completed and agent_failed of the run: it is never
\* emitted earlier or twice, and a call whose agent threads have all ended
\* is not left blocked before the emission.
C29_AgentsCompletedExactlyOnce ==
  /\ CompletedAfterAgentEvents
  /\ []((sink = "socketio" /\ AllAgentsDone /\ ~completed_event.emitted) =>
          ENABLED RunAgentsStep)

\* ---- execute_step (SpecExec)
IsFinal(call) == call.name = "final_response"
HasFinal(batch) == \E i \in 1..Len(batch) : IsFinal(batch[i])
FirstFinal(batch) ==
  CHOOSE i \in 1..Len(batch) :
    IsFinal(batch[i]) /\ \A j \in 1..(i - 1) : ~IsFinal(batch[j])

\* C3 (as claimed): the completion requests of one execute_step are at most
\* max_retries + 1, whatever the responses are.
C3_AttemptsWithinBudget == attempts <= max_retries + 1

\* C3 (amended): the completion requests answered without a tool call (direct
\* text, empty, exception) are at most max_retries + 1; an answer carrying
\* tool calls costs no retry and is not counted.
C3_RetryingAttemptsWithinBudget ==
  /\ attempts - tool_rounds <= max_retries + 1
  /\ attempts - tool_rounds = text_rounds + empty_rounds + exc_rounds

\* The budget is spent to the last attempt after an answer with tool calls.
C3_Witness ==
  /\ max_retries >= 1
  /\ tool_rounds >= 1
  /\ attempts - tool_rounds = max_retries + 1

\* The content argument of a final_response call. A payload that is no dict
\* names no argument; it is itself taken as the content.
ContentArgument(call) ==
  IF call.args.type = "dict" THEN call.args.content ELSE call.args.raw

\* C4: when a batch holds a final_response call, execute_step returns exactly
\* that call's content argument, having executed the calls before it in batch
\* order and none of the calls after it.
C4_TerminalContentReturned ==
  (last_response.kind = "tools" /\ HasFinal(last_response.batch)) =>
    LET k == FirstFinal(last_response.batch)
    IN /\ epc = "returned"
       /\ step_output = ContentArgument(last_response.batch[k])
       /\ executed = SubSeq(last_response.batch, 1, k)

\* C5: after a response that holds a final_response call, whatever its
\* payload, execute_step sends no further completion request.
C5_NoRequestAfterTerminal ==
  [][(last_response.kind = "tools" /\ HasFinal(last_response.batch))
       => attempts' = attempts]_vars

\* C8: if every completion call raises, execute_step raises ExecutionError
\* caused by the last attempt's exception after exactly max_retries + 1 calls,
\* with one backoff delay after each attempt but the last.
C8_AllAttemptsRaise ==
  (max_retries >= 0 /\ exc_rounds = attempts) =>
    /\ epc = "loop" => (attempts <= max_retries /\ sleeps = attempts)
    /\ epc # "loop" =>
         /\ epc = "raised"
         /\ raised = [type |-> "ExecutionError", cause |-> last_response.exc]
         /\ attempts = max_retries + 1
         /\ sleeps = max_retries

\* Two retries were delayed before the last attempt's exception was raised.
C8_Witness ==
  /\ epc = "raised"
  /\ exc_rounds = attempts
  /\ max_retries >= 1
  /\ sleeps = max_retries

CorrectiveUseTool ==
  Message("user", Str("Error: Use final_response tool to return result."),
          NoName, <<>>)

\* C9: when the service answers max_retries + 1 times with direct text,
\* execute_step returns the last text verbatim and raises nothing; each
\* earlier text is appended as an assistant turn followed by the instruction
\* to use the terminal tool.
C9_DirectTextFallback ==
  /\ (last_response.kind = "text" /\ epc # "loop") =>
        /\ epc = "returned"
        /\ raised = NoException
        /\ step_output = last_response.text
        /\ retries = max_retries + 1
  /\ (last_response.kind = "text" /\ epc = "loop") =>
        /\ retries <= max_retries
        /\ Len(messages) >= 2
        /\ messages[Len(messages) - 1] =
              Message("assistant", last_response.text, NoName, <<>>)
        /\ messages[Len(messages)] = CorrectiveUseTool
  /\ (max_retries >= 0 /\ text_rounds = attempts) =>
        /\ epc # "loop" => attempts = max_retries + 1
        /\ Len(messages) = 2 * (IF epc = "loop" THEN attempts ELSE attempts - 1)
        /\ \A i \in 1..(Len(messages) \div 2) :
             /\ messages[2 * i - 1].role = "assistant"
             /\ messages[2 * i] = CorrectiveUseTool

\* Two direct texts within a budget of one retry: the second is the output.
C9_Witness ==
  /\ epc = "returned"
  /\ max_retries = 1
  /\ text_rounds = 2 /\ attempts = 2
  /\ step_output = last_response.text
  /\ messages[1].content # last_response.text

\* C10: an empty response costs one retry; when that spends the budget,
\* execute_step returns the placeholder with the error marker and the step's
\* title and raises nothing; otherwise a corrective turn is appended and the
\* loop goes on.
C10_EmptyResponse ==
  /\ retries = text_rounds + empty_rounds + exc_rounds
  /\ (last_response.kind = "empty" /\ epc # "loop") =>
        /\ epc = "returned"
        /\ raised = NoException
        /\ step_output = [enc |-> "json",
                          val |-> <<"error", "no_response", "step", step_title>>]
        /\ retries = max_retries + 1
  /\ (last_response.kind = "empty" /\ epc = "loop") =>
        /\ retries <= max_retries
        /\ Len(messages) >= 1
        /\ messages[Len(messages)] =
              Message("user",
                      Str("Error: Empty response. Use final_response tool."),
                      NoName, <<>>)

\* The placeholder was returned for step "t2" after an earlier empty response.
C10_Witness ==
  /\ epc = "returned"
  /\ last_response.kind = "empty"
  /\ empty_rounds = 2
  /\ step_title = "t2"

\* A step of SpecExec that receives a response carrying tool calls.
ToolCallsReceived == tool_rounds' = tool_rounds + 1

\* C11: a response of non-terminal tool calls only leaves the retry counter
\* unchanged and appends to the conversation, for each call in batch order,
\* an assistant turn carrying that call followed by a tool turn under the
\* tool's name holding the JSON-serialised result; the loop then goes on to
\* the next completion request.
C11_ToolTurnsAppended ==
  [][(ToolCallsReceived /\ ~HasFinal(last_response'.batch)) =>
       LET batch == last_response'.batch
           n == Len(messages)
       IN /\ retries' = retries
          /\ epc' = "loop"
          /\ attempts' = attempts + 1
          /\ Len(messages') = n + 2 * Len(batch)
          /\ SubSeq(messages', 1, n) = messages
          /\ \A i \in 1..Len(batch) :
               /\ messages'[n + 2 * i - 1] =
                    [role |-> "assistant", content |-> PyNone, name |-> NoName,
                     tool_calls |-> <<batch[i]>>]
               /\ messages'[n + 2 * i] =
                    [role |-> "tool",
                     content |-> [enc |-> "json", val |-> execute_tool(batch[i]).val],
                     name |-> batch[i].name, tool_calls |-> <<>>]]_vars

\* A batch of two different non-terminal calls was answered with four turns.
C11_Witness ==
  /\ epc = "loop"
  /\ last_response.kind = "tools"
  /\ Len(last_response.batch) = 2
  /\ ~HasFinal(last_response.batch)
  /\ last_response.batch[1] # last_response.batch[2]
  /\ Len(messages) = 4
  /\ messages[1].role = "assistant" /\ messages[2].role = "tool"
  /\ retries = 0

\* A non-terminal call that fails: the tool is unknown or disabled, the
\* payload is no dict or lacks the required query, or the search request fails.
ToolFails(call) ==
  \/ call.name \notin enabled
  \/ call.args.type # "dict"
  \/ call.args.query = PyNone
  \/ call.effect = "raises"

\* C12: a failing tool call raises nothing into the step loop: execute_step
\* does not raise, no retry is consumed, the failing call is answered by a
\* tool turn whose serialised payload reports the error under "content" and
\* names the tool, and unless the batch holds a terminal call the loop goes on.
C12_ToolFailureBecomesResult ==
  [][ToolCallsReceived =>
       LET batch == last_response'.batch
           n == Len(messages)
           k == IF HasFinal(batch) THEN FirstFinal(batch) - 1 ELSE Len(batch)
       IN /\ raised' = NoException
          /\ epc' # "raised"
          /\ retries' = retries
          /\ ~HasFinal(batch) => epc' = "loop"
          /\ Len(messages') >= n + 2 * k
          /\ \A i \in 1..k : ToolFails(batch[i]) =>
               /\ messages'[n + 2 * i].role = "tool"
               /\ messages'[n + 2 * i].name = batch[i].name
               /\ messages'[n + 2 * i].content.enc = "json"
               /\ SubSeq(messages'[n + 2 * i].content.val, 1, 3) =
                    <<"content", "Error in", batch[i].name>>]_vars

\* The disabled search tool and an unknown tool were asked for in one batch,
\* both were answered by a tool turn, and the loop went on.
C12_Witness ==
  /\ epc = "loop"
  /\ last_response.kind = "tools"
  /\ Len(last_response.batch) = 2
  /\ "web_search" \notin enabled
  /\ last_response.batch[1].name = "web_search"
  /\ last_response.batch[2].name = "unknown_tool"
  /\ Len(messages) = 4
  /\ messages[4].role = "tool"
  /\ retries = 0

\* ---- create_plan (SpecPlan)
ReportSteps(p) == {i \in 1..Len(p) : p[i].report}

\* C6: for every plan of at least one step that the completion service
\* returns, after create_plan exactly one step has report = true, the last.
C6_ExactlyOneReportLast ==
  (ppc = "done" /\ llm_plan.kind = "parsed" /\ Len(llm_plan.plan) >= 1) =>
    /\ plan_result.kind = "plan"
    /\ Len(plan_result.plan) = Len(llm_plan.plan)
    /\ ReportSteps(plan_result.plan) = {Len(plan_result.plan)}
    /\ ReportSteps(mark_last_as_report(llm_plan.plan)) = {Len(llm_plan.plan)}

\* A two-step plan came back flagged on its first step only, and was fixed.
C6_Witness ==
  /\ ppc = "done"
  /\ llm_plan.kind = "parsed"
  /\ Len(llm_plan.plan) = 2
  /\ ReportSteps(llm_plan.plan) = {1}
  /\ plan_result.kind = "plan"

\* C7: every plan create_plan returns is non-empty and its last step has
\* report = true, whatever the completion service returned.
C7_ReturnedPlanNonEmpty ==
  (ppc = "done" /\ plan_result.kind = "plan") =>
    /\ Len(plan_result.plan) >= 1
    /\ plan_result.plan[Len(plan_result.plan)].report

\* ---- Agent.run (SpecAgent)
\* C18: Agent.run returns an AgentResult whatever fails. When planning or a
\* step raised (or building the result did), the result has success = false,
\* empty content, the error's string as error_message and as many completed
\* steps as execute_step calls returned before the failure, none for a
\* planning failure, and the agent's status is error.
C18_RunCatchesFailures ==
  /\ rpc = "returned" =>
       /\ agent_result.agent_id = RunAgentId
       /\ agent_result.success = (caught = NoCaught)
  /\ (rpc = "returned" /\ caught # NoCaught) =>
       /\ ~agent_result.success
       /\ agent_result.content = ""
       /\ agent_result.error_message = ExceptionStr(caught)
       /\ agent_result.error_message = state.error_message
       /\ agent_result.steps_completed = Len(history)
       /\ caught.type = "AgentError" => agent_result.steps_completed = 0
       /\ caught.type \in {"ExecutionError", "MaxRetriesExceededError"} =>
            agent_result.steps_completed = Len(user_msgs) - 1
       /\ state.status = "error"

\* The second step raised after the first had completed.
C18_Witness ==
  /\ rpc = "returned"
  /\ caught.type = "ExecutionError"
  /\ Len(user_msgs) = 2
  /\ agent_result.steps_completed = 1
  /\ ~agent_result.success

MinOf(S) == CHOOSE x \in S : \A y \in S : x <= y

\* C19: run_plan executes the steps in plan order and no step after the first
\* one whose report flag is true; it returns the output of that step, or, when
\* no step has the flag, the output of the last step after executing them
\* all; a successful Agent.run carries that output as its content.
C19_StopsAtFirstReport ==
  /\ \A k \in 1..Len(user_msgs) : user_msgs[k].step = k
  /\ ReportSteps(current_plan) # {} =>
       Len(user_msgs) <= MinOf(ReportSteps(current_plan))
  /\ result_content # NoContent =>
       IF ReportSteps(current_plan) # {}
         THEN /\ Len(history) = MinOf(ReportSteps(current_plan))
              /\ result_content = history[Len(history)]
         ELSE /\ Len(history) = Len(current_plan)
              /\ current_plan # <<>> => result_content = history[Len(current_plan)]
  /\ (rpc = "returned" /\ agent_result.success) =>
       /\ result_content.enc = "str"
       /\ agent_result.content = result_content.val[1]

\* A plan whose first step is a report step ended after that step, its second
\* step not executed.
C19_Witness ==
  /\ rpc = "returned"
  /\ Len(current_plan) = 2
  /\ current_plan[1].report
  /\ Len(history) = 1
  /\ agent_result.success
  /\ agent_result.content = "o2"

\* C20: the steps of one agent are executed one after the other: at most one
\* execute_step call is open, and it is the call for the step after those that
\* returned. The context of the first step is the request alone; the context
\* of step k extends that of step k-1 by the title and the output of step k-1,
\* under the previous-context heading.
C20_SequentialContexts ==
  /\ Len(user_msgs) \in {Len(history), Len(history) + 1}
  /\ rpc = "in_step" => Len(user_msgs) = Len(history) + 1
  /\ rpc = "loop" => Len(user_msgs) = Len(history)
  /\ \A k \in 1..Len(user_msgs) :
       user_msgs[k].user_msg =
         IF k = 1
           THEN "User task: task"
           ELSE user_msgs[k - 1].user_msg
                  \o (IF k = 2 THEN "\n\nPrevious context:\n" ELSE "\n")
                  \o "Step " \o ToString(k - 1) \o " ("
                  \o current_plan[k - 1].title \o ") result:\n"
                  \o PyStr(history[k - 1])

\* The second step was called with the title and the output of the first.
C20_Witness ==
  /\ rpc = "in_step"
  /\ Len(user_msgs) = 2
  /\ current_plan[1].title = "t2"
  /\ history[1] = Str("o2")
  /\ user_msgs[2].user_msg =
       "User task: task\n\nPrevious context:\nStep 1 (t2) result:\no2"

\* Every step run_plan had to execute was executed and returned a str: the
\* steps up to the first report step, or all of them when there is none.
AllStepsSucceeded ==
  /\ Len(history) = (IF ReportSteps(current_plan) # {}
                       THEN MinOf(ReportSteps(current_plan))
                       ELSE Len(current_plan))
  /\ \A i \in 1..Len(history) : history[i].enc = "str"

\* C21: an emission that raises does not change the outcome: an agent whose
\* plan was created and whose steps all succeeded is returned by Agent.run
\* with success = true.
C21_EmitFailureKeepsOutcome ==
  (rpc = "returned" /\ caught.type # "AgentError" /\ AllStepsSucceeded) =>
    agent_result.success

\* ---- synthesis (SpecSynth)
\* The calls that take the plain (non-streaming) synthesis.
PlainSynthesis ==
  \/ entry = "synthesize_answer"
  \/ entry = "run_complete_workflow" /\ ~(streaming /\ wf_socketio)

Spaces(n) == [i \in 1..n |-> " "]

\* t is s without its leading and trailing blanks, and t is not empty.
IsTrimOf(t, s) ==
  /\ t # <<>>
  /\ t[1] # " "
  /\ t[Len(t)] # " "
  /\ \E i, j \in 0..Len(s) : s = Spaces(i) \o t \o Spaces(j)

\* The service answered no text, or text that is blank throughout.
EmptyAfterTrimming(c) == c = PyNone \/ \A i \in 1..Len(c.val) : c.val[i] = " "

\* C22: synthesize_answer raises SynthesisError for an empty input list
\* (without any completion call), for a message without a content field, for
\* a text that is empty after trimming and when the service raises; otherwise
\* it makes exactly one completion call and returns the trimmed, non-empty
\* text.
C22_SynthesizeAnswerOutcome ==
  (PlainSynthesis /\ synth_out.kind # "none") =>
    IF synth_input = <<>>
      THEN /\ synth_out.kind = "raises"
           /\ synth_out.error.type = "SynthesisError"
           /\ completion_calls = 0
      ELSE /\ completion_calls = 1
           /\ IF \/ completion.kind \in {"raises", "no_content"}
                 \/ EmptyAfterTrimming(completion.content)
                THEN /\ synth_out.kind = "raises"
                     /\ synth_out.error.type = "SynthesisError"
                ELSE /\ synth_out.kind = "returns"
                     /\ IsTrimOf(synth_out.value.val, completion.content.val)

C22_Witness ==
  /\ entry = "synthesize_answer"
  /\ synth_out.kind = "returns"
  /\ synth_out.value # completion.content

\* The calls that take the streaming synthesis.
StreamingSynthesis ==
  \/ entry = "synthesize_answer_streaming"
  \/ entry = "run_complete_workflow" /\ streaming /\ wf_socketio

\* The deltas that carry a text, in arrival order.
RECURSIVE TextDeltas(_)
TextDeltas(ds) ==
  IF ds = <<>> THEN <<>>
  ELSE (IF Head(ds) # PyNone THEN <<Head(ds)>> ELSE <<>>) \o TextDeltas(Tail(ds))

\* The stream was delivered to its end and carried no content, or text that
\* is blank throughout.
StreamedNoText ==
  /\ stream_end = "ok"
  /\ stream = <<>>
  /\ EmptyAfterTrimming(Chars(Concat(TextDeltas(consumed))))

\* C23: synthesize_answer_streaming fails with SynthesisError under the
\* conditions of the plain form (empty input list, no content, text empty
\* after trimming), and the failure is detected before any chunk is yielded
\* and before the chunk callback is invoked.
C23_StreamingFailsBeforeStream ==
  (/\ StreamingSynthesis
   /\ synth_out.kind # "none"
   /\ (synth_input = <<>> \/ StreamedNoText)) =>
    /\ synth_out.kind = "raises"
    /\ synth_out.error.type = "SynthesisError"
    /\ trace = <<>>

\* The deltas delivered so far that are neither None nor the empty text.
NonEmptyDeltas == SelectSeq(consumed, LAMBDA d : d # PyNone /\ d.val # <<>>)

SuccessfulContents ==
  LET ok == SelectSeq(multi_result.results, LAMBDA r : r.success)
  IN [i \in 1..Len(ok) |-> ok[i].content]

IsRegistered(name) == \E i \in 1..Len(tools) : tools[i].key = name

Listed(name) ==
  \E i \in 1..Len(get_tool_definitions) : get_tool_definitions[i] = name

\* C27: final_response cannot be disabled. After any sequence of
\* register_tool, enable_tool and disable_tool calls, on a registry in which
\* it is registered it is enabled, get_tool returns it and it appears once in
\* get_tool_definitions.
C27_FinalResponseAlwaysEnabled ==
  IsRegistered("final_response") =>
    /\ is_enabled(ToolsGet(tools, "final_response"))
    /\ get_tool("final_response") = ToolsGet(tools, "final_response")
    /\ get_tool("final_response").class = "FinalResponseTool"
    /\ Cardinality({i \in 1..Len(get_tool_definitions) :
                      get_tool_definitions[i] = "final_response"}) = 1

C27_Witness ==
  /\ IsRegistered("final_response")
  /\ last_toggle["final_response"] = "disable"
  /\ IsRegistered("web_search")
  /\ ~Listed("web_search")

\* The enabled state the calls so far have asked for: the tool was enabled
\* last, or it was registered enabled and not toggled since.
LastAskedEnabled(name) ==
  last_toggle[name] \in {"enable", "registered_enabled"}

\* C28: execute_tool raises ToolNotFoundError for a name that is not
\* registered or is disabled and runs the tool otherwise; a registered
\* non-core tool is executable and listed in get_tool_definitions exactly
\* when its most recent toggle was enable_tool, or it was never disabled.
C28_ToggleDecidesExecution ==
  /\ [](\A name \in ToolNames \ {"final_response"} :
          /\ IsRegistered(name) =>
               /\ (get_tool(name) # NoTool) = LastAskedEnabled(name)
               /\ Listed(name) = LastAskedEnabled(name)
          /\ ~IsRegistered(name) => (get_tool(name) = NoTool /\ ~Listed(name)))
  /\ [][(exec_call' # exec_call \/ exec_result' # exec_result) =>
          LET name == exec_call'.name
              executable == /\ IsRegistered(name)
                            /\ (name = "final_response" \/ LastAskedEnabled(name))
          IN IF executable
               THEN /\ ~exec_result'.not_found
                    /\ exec_result'.outcome = RunTool(ToolsGet(tools, name), exec_call')
               ELSE exec_result'.not_found]_vars

C28_Witness ==
  /\ last_toggle["web_search"] = "disable"
  /\ exec_call.name = "web_search"
  /\ exec_result.not_found
  /\ exec_result.message = "Tool is disabled"

\* 0 <= current_step <= total_steps, and progress is current_step out of
\* total_steps in percent, to the nearest hundredth (0 when total_steps is 0).
StepsAndProgressInRange ==
  /\ 0 <= state.current_step
  /\ state.current_step <= state.total_steps
  /\ IF state.total_steps = 0 THEN state.progress = 0
     ELSE LET exact == state.current_step * 10000
              shown == state.progress * state.total_steps
          IN /\ 2 * (shown - exact) <= state.total_steps
             /\ 2 * (exact - shown) <= state.total_steps

\* The status changes the claim allows.
StatusMoves ==
  {<<"idle", "planning">>, <<"planning", "executing">>,
   <<"executing", "completed">>, <<"planning", "error">>,
   <<"executing", "error">>}

\* C30: during one run of a new Agent, 0 <= current_step <= total_steps and
\* progress = current_step / total_steps x 100 (0 when total_steps is 0) in
\* every state, and the status only moves planning -> executing -> completed,
\* with error entered from planning or executing only; completed and error
\* are never left.
C30_StateInvariants ==
  /\ []StepsAndProgressInRange
  /\ [][state'.status # state.status =>
          <<state.status, state'.status>> \in StatusMoves]_vars

\* ---- the retry wrapper (SpecRetry)

RetryDone == ypc = "done"

LastCall == func_calls[Len(func_calls)]

\* The exception is an instance of one of the configured types.
Configured(e) == "Exception" \in exceptions \/ e.type \in exceptions

\* The calls before the last one all raised an exception of the configured
\* types, and each was followed by one sleep.
EarlierCallsFailed ==
  /\ \A i \in 1..(Len(func_calls) - 1) :
       /\ func_calls[i].kind = "raises"
       /\ Configured(func_calls[i].error)
  /\ Len(slept) = Len(func_calls) - 1
  /\ \A i \in 1..Len(slept) : slept[i].after = i - 1 /\ slept[i].delay > 0

\* C31: with max_retries = m the wrapped function is called at most m + 1
\* times; the first successful result is returned without a further call,
\* there is one sleep after every failed attempt but the last, the exception
\* of the (m+1)-th attempt is raised when all attempts fail, and an
\* exception outside the configured types leaves the wrapper at once.
C31_RetryWithBackoff ==
  /\ Len(func_calls) <= retry_max + 1
  /\ ~RetryDone => Len(slept) = Len(func_calls)
  /\ (RetryDone /\ func_calls # <<>>) =>
       /\ EarlierCallsFailed
       /\ retry_out = LastCall
       /\ (LastCall.kind = "raises" /\ Configured(LastCall.error))
            => Len(func_calls) = retry_max + 1

\* All m + 1 attempts failed with m >= 1 and the last exception was raised.
C31_Witness ==
  /\ RetryDone
  /\ retry_max >= 1
  /\ Len(func_calls) = retry_max + 1
  /\ retry_out.kind = "raises"
  /\ Configured(retry_out.error)
  /\ func_calls[1].error # retry_out.error

\* ---- the streamed final answer (SpecSynth)

StreamedWorkflow == entry = "run_complete_workflow" /\ streaming /\ wf_socketio

\* The places of the trace where final_answer_complete was emitted.
CompleteAt == {k \in 1..Len(trace) : trace[k].kind = "final_answer_complete"}

\* C32: in streaming mode with a SocketIO sink synthesize_final_answer emits
\* final_answer_complete exactly once and after every final_answer_chunk of
\* the answer, returns the concatenation of the emitted chunks in order, and
\* emits no final_answer_complete when the synthesis fails.
C32_CompleteAfterChunks ==
  StreamedWorkflow =>
    /\ \A k \in CompleteAt : k = Len(trace)
    /\ (spc # "returned") => CompleteAt = {}
    /\ (spc = "returned" /\ final_answer.kind = "raises") => CompleteAt = {}
    /\ (spc = "returned" /\ final_answer.kind = "returns") =>
         /\ CompleteAt = {Len(trace)}
         /\ trace # <<>>
         /\ final_answer.value = Chars(Concat(ChunksOf(trace, "callback")))

\* An answer of two chunks was streamed and completed.
C32_Witness ==
  /\ StreamedWorkflow
  /\ spc = "returned"
  /\ final_answer.kind = "returns"
  /\ Len(ChunksOf(trace, "callback")) = 2
  /\ CompleteAt # {}

\* ---- the events of one agent run (SpecAgent)

CreatedEvents == SelectSeq(emitted, LAMBDA ev : ev.event = "agent_created")

ProgressEvents == SelectSeq(emitted, LAMBDA ev : ev.event = "agent_progress")

\* The report step is the last step of the plan.
ReportStepIsLast ==
  /\ current_plan # <<>>
  /\ IsReportStep(current_plan[Len(current_plan)])
  /\ \A i \in 1..(Len(current_plan) - 1) : ~IsReportStep(current_plan[i])

\* C33: in an agent run with a SocketIO sink and a non-empty plan,
\* agent_created is emitted exactly once and before any agent_progress, one
\* agent_progress is emitted after each completed step, the percentages
\* reported increase strictly, and the last one is 100 when the report step
\* is the last step of the plan.
C33_AgentEventsInOrder ==
  (socketio /\ current_plan # <<>>) =>
    /\ Len(CreatedEvents) <= 1
    /\ (emitted # <<>>) => emitted[1].event = "agent_created"
    /\ (rpc \in {"in_step", "completed", "returned"}) => Len(CreatedEvents) = 1
    /\ Len(ProgressEvents) = state.current_step
    /\ \A i \in 1..(Len(ProgressEvents) - 1) :
         ProgressEvents[i].value < ProgressEvents[i + 1].value
    /\ (rpc = "returned" /\ agent_result.success /\ ReportStepIsLast) =>
         /\ ProgressEvents # <<>>
         /\ ProgressEvents[Len(ProgressEvents)].value = 100

\* ---- the retry counter of execute_step (SpecExec)

\* The responses that consumed a retry so far.
RetryConsuming == text_rounds + empty_rounds + exc_rounds

\* execute_step ended the way the last failure asks for: the text of a
\* direct-text response, the placeholder of an empty one, ExecutionError
\* for an exception.
EndedByLastFailure ==
  \/ /\ last_response.kind = "text"
     /\ epc = "returned"
     /\ step_output = last_response.text
  \/ /\ last_response.kind = "empty"
     /\ epc = "returned"
     /\ step_output = NoResponsePlaceholder(step_title)
  \/ /\ last_response.kind = "exception"
     /\ epc = "raised"
     /\ raised = [type |-> "ExecutionError", cause |-> last_response.exc]

RetryCounterState ==
  /\ retries = RetryConsuming
  /\ retries <= max_retries + 1
  /\ (retries >= 1 /\ retries > max_retries) => EndedByLastFailure
  /\ (retries <= max_retries) =>
       \/ epc = "loop"
       \/ epc = "returned" /\ last_response.kind = "tools"

\* C34: direct-text, empty and exception responses draw on one retry
\* counter: the responses that consumed a retry are at most max_retries + 1,
\* the counter never decreases, and the step ends with the fallback text, the
\* placeholder or ExecutionError, according to the kind of the last failure,
\* exactly when the counter first exceeds max_retries.
C34_SharedRetryCounter ==
  /\ []RetryCounterState
  /\ [][/\ retries' >= retries
        /\ retries' <= retries + 1
        /\ (retries' > retries) => retries <= max_retries]_vars

\* A direct text and then an exception spent a budget of two attempts.
C34_Witness ==
  /\ text_rounds = 1
  /\ exc_rounds = 1
  /\ retries = 2
  /\ epc = "raised"

\* ---- the end of the retry loop (SpecExec)

LoopEnded == epc \in {"returned", "raised"}

\* A step output is set: the content of a final_response call, the text of a
\* direct-text response, or the placeholder of an empty one.
StepOutputSet ==
  /\ epc = "returned"
  /\ step_output # PyNone
  /\ \/ last_response.kind = "tools"
     \/ last_response.kind = "text" /\ step_output = last_response.text
     \/ /\ last_response.kind = "empty"
        /\ step_output = NoResponsePlaceholder(step_title)

MaxRetriesExceededRaised == raised.type = "MaxRetriesExceededError"

C36_ExecuteStepTerminates == <>(epc # "loop")

\* ---- successful results (SpecAgent)

\* C37: every AgentResult with success = true has steps_completed >= 1 and
\* as content the output execute_step returned for the last step executed;
\* no agent reports success without having executed a step.
C37_SuccessHasExecutedStep ==
  (rpc = "returned" /\ agent_result.success) =>
    /\ agent_result.steps_completed >= 1
    /\ history # <<>>
    /\ agent_result.content = PyStr(history[Len(history)])

\* ---- two workflows on one orchestrator (SpecWorkflows)

\* The results the agents of invocation w produced, in the order of its configs.
OwnResults(w) == [a \in 1..inv_configs[w] |-> InvocationResult(w, a)]

SameResults(s, t) ==
  /\ Len(s) = Len(t)
  /\ {s[i] : i \in 1..Len(s)} = {t[i] : i \in 1..Len(t)}

\* C38: when two workflow invocations run concurrently on the one
\* AgentOrchestrator, each run_agents call returns exactly the results of its
\* own N agents: none is lost to the other call's reset of the shared map and
\* none of the other call's results appears.
C38_OwnResultsReturned ==
  \A w \in Invocations :
    inv_pc[w] = "returned" => SameResults(inv_ret[w], OwnResults(w))

\* ---- the end of the timer broadcaster (SpecTimer)

NoResolveOpen == \A t \in ResolveThreads : call_stack[t] = <<>>

\* The instances the finished resolve calls for the type returned.
Obtained(service_type) ==
  {resolved[t].value : t \in {u \in ResolveThreads :
      /\ resolved[u].kind = "returns"
      /\ resolved[u].value.val[1] = service_type}}

\* C40: resolve, called from several threads for a registered type of a
\* graph without cycles, never raises the circular-dependency error; every
\* caller of a singleton obtains the same instance, its factory being invoked
\* once (unless a call failed); and when no resolve call is open, the
\* in-progress set is empty, whether the calls succeeded or failed.
C40_ConcurrentResolve ==
  /\ \A t \in ResolveThreads :
       resolved[t].kind = "raises" =>
         resolved[t].error \notin {CircularDependency(s) : s \in Services}
  /\ \A s \in Services :
       IsSingleton(s) =>
         /\ Cardinality(Obtained(s)) <= 1
         /\ (Obtained(s) # {} /\ \A t \in ResolveThreads : resolved[t].kind # "raises")
              => factory_calls[s] = 1
  /\ NoResolveOpen => building = {}

\* The part of C40 about the in-progress set alone.
BuildingEmptyWhenIdle == NoResolveOpen => building = {}

====
